---------------------------- MODULE Spec2Model ----------------------------
(***************************************************************************)
(* JobQueueSystem (src/src/services/HistoricalPricingService.ts): the      *)
(* in-process priority job queue with bounded concurrency and retry.       *)
(*                                                                         *)
(* The program runs on a single-threaded event loop.  One step of the      *)
(* model is one macrotask with the microtasks it drains: a call of the     *)
(* public API (addJob, cancelJob), the callback of a timer set by          *)
(* setTimeout, or the settling of an executor's promise together with the  *)
(* rest of executeJob and its .finally.  A timer is outstanding from the   *)
(* setTimeout call until its callback runs; which outstanding timer fires  *)
(* next is not constrained.                                                *)
(***************************************************************************)
EXTENDS Integers, Sequences, FiniteSets, TLC

----------------------------------------------------------------------------
(* Bounds of the model. *)

\* Number of addJob calls explored.
MaxJobs == 4

\* Priorities addJob is called with: 1..MaxPriority (1 = highest).
MaxPriority == 2

\* Executor runs that throw, and cancelJob calls that take effect.
MaxThrows == 1

MaxCancels == 1

\* The retry specification: addJob calls, the maxAttempts values they
\* pass (0..MaxMaxAttempts), throwing runs and effective cancelJob calls.
MaxRetryJobs == 2

MaxMaxAttempts == 2

MaxRetryThrows == 3

MaxRetryCancels == 2

\* The progress specification: addJob calls, subscribe / unsubscribe calls
\* and throwing runs.
MaxProgressJobs == 2

MaxSubs == 3

MaxProgressThrows == 2

\* The recurrence specification: scheduleRecurringJob calls, and the jobs
\* they and their interval timers add.
MaxSchedulers == 2

MaxRecurringJobs == 4

\* The dispatch specification: addJob calls (one more than there are
\* slots), throwing runs and effective cancelJob calls.
MaxDispatchJobs == 4

MaxDispatchThrows == 1

MaxDispatchCancels == 1

\* The longest list deduplicateProperties is called with.
MaxBatch == 3

\* The longest list findDuplicates is called with at a chosen threshold.
MaxChain == 4

\* The address strings normalizeAddress is called with: every string of
\* up to MaxAddressLen characters, and up to MaxAddressWords pieces.
MaxAddressLen == 5

MaxAddressWords == 4

(* Program constants. *)

maxConcurrentJobs == 3

RetryBaseMs == 5000

----------------------------------------------------------------------------
VARIABLES
    jobs,          \* Map<string, Job>: job id i is the i-th job created
    queue,         \* Job[]: the pending pool, as a sequence of job ids
    runningJobs,   \* Set<string>
    isProcessing,  \* boolean
    tickTimers,    \* outstanding reschedule timers set by processQueue
    retryTimers,   \* outstanding retry timers set by executeJob's catch
    now,           \* the clock read by new Date(), in ms ticks
    lastPass,      \* jobs dispatched by the step just taken, in dispatch order
    ret,           \* the API call made by the step just taken, and its result
    throws,        \* executor runs that threw so far
    cancels,       \* cancelJob calls that took effect so far
    progressCallbacks, \* Map<string, callback>: a function on the subscribed ids
    recurring,     \* outstanding interval timers set by scheduleRecurringJob
    delivered,     \* progress events the step just taken passed to callbacks
    subLog,        \* the subscribe / unsubscribe calls made so far, in order
    batch,         \* the argument of the DataNormalizationService call
    result,        \* what that call returned, or that it threw
    runs,          \* the calls of ingestByZipCode made so far, each at its await
    store          \* the rows of the database's Property table, in creation order

\* The state of the job queue; the progress channel and the recurrences.
queueVars == <<jobs, queue, runningJobs, isProcessing, tickTimers, retryTimers,
               now, lastPass, ret, throws, cancels>>

channelVars == <<progressCallbacks, recurring, delivered, subLog>>

\* What only subscribeToProgress, unsubscribeFromProgress and
\* scheduleRecurringJob write.
registrations == <<progressCallbacks, recurring, subLog>>

\* The state outside JobQueueSystem.
outside == <<batch, result, runs, store>>

\* The state of PropertyIngestionPipeline and of the database.
pipelineVars == <<runs, store>>

vars == <<queueVars, channelVars, outside>>

Priorities == 1..MaxPriority

AttemptLimits == 0..MaxMaxAttempts

\* The default values of addJob's parameters priority and maxAttempts.
DefaultPriority == 3

DefaultMaxAttempts == 3

CancelMessage == "Job cancelled by user"

ExecutorError == "executor error"

\* ret after a step that is no API call, after addJob (which returns the
\* new job's id) and after cancelJob(id) (which returns a boolean).
NoReturn == [call |-> "none", id |-> 0, value |-> FALSE]

addJobReturn(id) == [call |-> "addJob", id |-> id, value |-> TRUE]

cancelJobReturn(id, value) == [call |-> "cancelJob", id |-> id, value |-> value]

----------------------------------------------------------------------------
(* sortQueue: Array.prototype.sort with the comparator                     *)
(* (priority, createdAt); the sort is stable.                              *)

compareReversed(a, b, js) ==
    IF js[a].priority # js[b].priority
    THEN js[b].priority - js[a].priority
    ELSE js[a].createdAt - js[b].createdAt

compare(a, b, js) ==
    IF js[a].priority # js[b].priority
    THEN js[a].priority - js[b].priority
    ELSE js[a].createdAt - js[b].createdAt

RECURSIVE insertStable(_, _, _)
insertStable(s, x, js) ==
    IF s = <<>> THEN <<x>>
    ELSE IF compare(s[Len(s)], x, js) <= 0 THEN Append(s, x)
    ELSE Append(insertStable(SubSeq(s, 1, Len(s) - 1), x, js), s[Len(s)])

RECURSIVE sortFrom(_, _, _)
sortFrom(done, rest, js) ==
    IF rest = <<>> THEN done
    ELSE sortFrom(insertStable(done, Head(rest), js), Tail(rest), js)

sortQueueUnsorted(q, js) == q

sortQueue(q, js) == sortFrom(<<>>, q, js)

----------------------------------------------------------------------------
(* updateProgress(jobId, progress, message): passes the event to the       *)
(* callback registered for jobId, when there is one.  events is what the   *)
(* running step has delivered so far.                                      *)

StartMessage == "Starting job..."

CompletedMessage == "Job completed successfully"

FailedMessage == "Job failed"

MilestoneMessage == "milestone"

updateProgressToAny(events, cbs, jobId, progress, message) ==
    IF DOMAIN cbs # {}
    THEN Append(events, [callback |-> cbs[CHOOSE k \in DOMAIN cbs : TRUE],
                         jobId |-> jobId, progress |-> progress,
                         message |-> message])
    ELSE events

updateProgress(events, cbs, jobId, progress, message) ==
    IF jobId \in DOMAIN cbs
    THEN Append(events, [callback |-> cbs[jobId], jobId |-> jobId,
                         progress |-> progress, message |-> message])
    ELSE events

\* A callback that throws on every event, and the message of its error.
Throwing == "throws"

CallbackError == "callback error"

\* The callback updateProgress calls for jobId throws.
throwsOn(cbs, jobId) == jobId \in DOMAIN cbs /\ cbs[jobId] = Throwing

\* The jobs of a pass whose callback threw at line 484: executeJob's promise
\* is rejected before the executor is called, and the .finally of
\* processQueue deletes the job from runningJobs once the pass has returned.
aborted(cbs, started) ==
    {started[k] : k \in {x \in 1..Len(started) : throwsOn(cbs, started[x])}}

\* The events of a pass: executeJob reports 0% for each job it starts.
RECURSIVE startEvents(_, _, _)
startEvents(events, cbs, started) ==
    IF started = <<>> THEN events
    ELSE startEvents(updateProgress(events, cbs, Head(started), 0, StartMessage),
                     cbs, Tail(started))

----------------------------------------------------------------------------
(* executeJob up to its first await: runs inside processQueue's loop.      *)

executeJobStartNoCount(job) ==
    [job EXCEPT !.status = "running", !.startedAt = TRUE]

executeJobStart(job) ==
    [job EXCEPT !.status = "running", !.startedAt = TRUE,
                !.attempts = @ + 1]

(* The admission check of processQueue's while loop. *)

admitsOverBound(q, running) ==
    Len(q) > 0 /\ Cardinality(running) <= maxConcurrentJobs

admits(q, running) ==
    Len(q) > 0 /\ Cardinality(running) < maxConcurrentJobs

(* processQueue's while loop: shifts jobs off the pool and starts them     *)
(* while a slot is free; a shifted job already in runningJobs is dropped.  *)

RECURSIVE drain(_, _, _, _)
drain(q, running, js, started) ==
    IF admits(q, running)
    THEN LET job == Head(q)
         IN IF job \in running
            THEN drain(Tail(q), running, js, started)
            ELSE drain(Tail(q), running \cup {job},
                       [js EXCEPT ![job] = executeJobStart(@)],
                       Append(started, job))
    ELSE [queue |-> q, runningJobs |-> running, jobs |-> js,
          started |-> started]

(* processQueue, entered with isProcessing = processing, the pool q, the   *)
(* job map js and timers reschedule timers outstanding: returns at once    *)
(* when a pass is marked active, else marks it, drains the pool and sets   *)
(* the reschedule timer.                                                   *)

processQueue(processing, q, js, timers) ==
    IF processing
    THEN /\ isProcessing' = processing
         /\ queue' = q
         /\ jobs' = js
         /\ tickTimers' = timers
         /\ lastPass' = <<>>
         /\ delivered' = <<>>
         /\ UNCHANGED runningJobs
    ELSE LET d == drain(q, runningJobs, js, <<>>)
         IN /\ isProcessing' = TRUE
            /\ queue' = d.queue
            /\ runningJobs' = d.runningJobs \ aborted(progressCallbacks, d.started)
            /\ jobs' = d.jobs
            /\ lastPass' = d.started
            /\ delivered' = startEvents(<<>>, progressCallbacks, d.started)
            /\ tickTimers' = timers + 1

----------------------------------------------------------------------------
(* addJob(type, payload, priority, maxAttempts), called dt ms after the    *)
(* clock was last read: registers the job, pushes it on the pool, sorts,   *)
(* and runs processQueue when no pass is marked active.                    *)

newJob(priority, maxAttempts, createdAt) ==
    [priority |-> priority, status |-> "pending", createdAt |-> createdAt,
     startedAt |-> FALSE, completedAt |-> FALSE, attempts |-> 0,
     maxAttempts |-> maxAttempts, errorMessage |-> ""]

addJobBodyReentrant(priority, maxAttempts, dt) ==
    /\ LET id == Len(jobs) + 1
           js == Append(jobs, newJob(priority, maxAttempts, now + dt))
           q  == sortQueue(Append(queue, id), js)
       IN  processQueue(FALSE, q, js, tickTimers)
    /\ now' = now + dt
    /\ UNCHANGED <<retryTimers, throws, cancels, progressCallbacks, subLog,
                   outside>>

\* The body of addJob, which scheduleRecurringJob's schedule() calls too.
addJobBody(priority, maxAttempts, dt) ==
    /\ LET id == Len(jobs) + 1
           js == Append(jobs, newJob(priority, maxAttempts, now + dt))
           q  == sortQueue(Append(queue, id), js)
       IN  IF ~isProcessing
           THEN processQueue(isProcessing, q, js, tickTimers)
           ELSE /\ jobs' = js
                /\ queue' = q
                /\ lastPass' = <<>>
                /\ delivered' = <<>>
                /\ UNCHANGED <<runningJobs, isProcessing, tickTimers>>
    /\ now' = now + dt
    /\ UNCHANGED <<retryTimers, throws, cancels, progressCallbacks, subLog,
                   outside>>

addJob(priority, maxAttempts, dt) ==
    /\ addJobBody(priority, maxAttempts, dt)
    /\ ret' = addJobReturn(Len(jobs) + 1)
    /\ UNCHANGED recurring

(* The callback of the timer processQueue sets: clears isProcessing and    *)
(* runs processQueue again when the pool is not empty.                     *)

rescheduleTimerClearsOnly ==
    /\ tickTimers > 0
    /\ isProcessing' = FALSE
    /\ tickTimers' = tickTimers - 1
    /\ lastPass' = <<>>
    /\ delivered' = <<>>
    /\ ret' = NoReturn
    /\ UNCHANGED <<queue, runningJobs, jobs, retryTimers, now, throws, cancels,
                   registrations, outside>>

rescheduleTimer ==
    /\ tickTimers > 0
    /\ IF Len(queue) > 0
       THEN processQueue(FALSE, queue, jobs, tickTimers - 1)
       ELSE /\ isProcessing' = FALSE
            /\ tickTimers' = tickTimers - 1
            /\ lastPass' = <<>>
            /\ delivered' = <<>>
            /\ UNCHANGED <<queue, runningJobs, jobs>>
    /\ ret' = NoReturn
    /\ UNCHANGED <<retryTimers, now, throws, cancels, registrations, outside>>

----------------------------------------------------------------------------
(* The rest of executeJob, run when the executor's promise settles:        *)
(* ok = TRUE when the executor returned, FALSE when it threw.  The         *)
(* .finally set by processQueue runs in the same microtask drain.          *)

canRetry(job) == job.attempts < job.maxAttempts

retryDelay(job) == RetryBaseMs * job.attempts

executeJobCompleted(job) ==
    [job EXCEPT !.status = "completed", !.completedAt = TRUE]

executeJobUncaught(job) == job

executeJobCaught(job) ==
    IF canRetry(job)
    THEN [job EXCEPT !.status = "retrying", !.errorMessage = ExecutorError]
    ELSE [job EXCEPT !.status = "failed", !.completedAt = TRUE,
                     !.errorMessage = ExecutorError]

\* The catch block entered with the error of a callback.
executeJobCaughtCallback(job) ==
    [executeJobCaught(job) EXCEPT !.errorMessage = CallbackError]

\* The events the catch block reports after events: 0% on the failure that
\* ends the job, none on a retry.
caughtEvents(events, cbs, id, job) ==
    IF canRetry(job) THEN events
    ELSE updateProgress(events, cbs, id, 0, FailedMessage)

\* The events executeJob reports once the executor has settled: 100% on
\* success, and when the callback throws on it, those of the catch block;
\* on failure those of the catch block.
settleEvents(cbs, id, job, ok) ==
    IF ok
    THEN IF throwsOn(cbs, id)
         THEN caughtEvents(updateProgress(<<>>, cbs, id, 100, CompletedMessage),
                           cbs, id, job)
         ELSE updateProgress(<<>>, cbs, id, 100, CompletedMessage)
    ELSE caughtEvents(<<>>, cbs, id, job)

\* executeJob after the executor returned: lines 506-509, and the catch
\* block when the callback throws at line 509.
executeJobReturned(cbs, id, job) ==
    IF throwsOn(cbs, id)
    THEN executeJobCaughtCallback(executeJobCompleted(job))
    ELSE executeJobCompleted(job)

executeJobSettle(id, ok) ==
    /\ id \in runningJobs
    /\ jobs' = [jobs EXCEPT ![id] =
                  IF ok THEN executeJobReturned(progressCallbacks, id, @)
                  ELSE executeJobCaught(@)]
    /\ retryTimers' = IF (~ok \/ throwsOn(progressCallbacks, id))
                         /\ canRetry(jobs[id])
                      THEN retryTimers \cup
                             {[job |-> id, delay |-> retryDelay(jobs[id])]}
                      ELSE retryTimers
    /\ runningJobs' = runningJobs \ {id}
    /\ lastPass' = <<>>
    /\ ret' = NoReturn
    /\ throws' = IF ok THEN throws ELSE throws + 1
    /\ delivered' = settleEvents(progressCallbacks, id, jobs[id], ok)
    /\ UNCHANGED <<queue, isProcessing, tickTimers, now, cancels,
                   registrations, outside>>

(* The callback of the retry timer: unshifts the job on the pool, sorts.   *)

retryTimerUnsorted(t) ==
    /\ t \in retryTimers
    /\ retryTimers' = retryTimers \ {t}
    /\ queue' = <<t.job>> \o queue
    /\ lastPass' = <<>>
    /\ ret' = NoReturn
    /\ delivered' = <<>>
    /\ UNCHANGED <<jobs, runningJobs, isProcessing, tickTimers, now,
                   throws, cancels, registrations, outside>>

retryTimer(t) ==
    /\ t \in retryTimers
    /\ retryTimers' = retryTimers \ {t}
    /\ queue' = sortQueue(<<t.job>> \o queue, jobs)
    /\ lastPass' = <<>>
    /\ ret' = NoReturn
    /\ delivered' = <<>>
    /\ UNCHANGED <<jobs, runningJobs, isProcessing, tickTimers, now,
                   throws, cancels, registrations, outside>>

----------------------------------------------------------------------------
(* cancelJob(jobId). *)

RECURSIVE findIndex(_, _, _)
findIndex(q, id, i) ==
    IF i > Len(q) THEN 0
    ELSE IF q[i] = id THEN i
    ELSE findIndex(q, id, i + 1)

splice(q, i) == SubSeq(q, 1, i - 1) \o SubSeq(q, i + 1, Len(q))

refusesCancelOfCompletedOnly(js, id) ==
    id > Len(js) \/ js[id].status = "completed"

refusesCancel(js, id) ==
    id > Len(js) \/ js[id].status = "running" \/ js[id].status = "completed"

cancelJob(id) ==
    /\ IF refusesCancel(jobs, id)
       THEN /\ ret' = cancelJobReturn(id, FALSE)
            /\ UNCHANGED <<jobs, queue, cancels>>
       ELSE /\ LET i == findIndex(queue, id, 1)
               IN queue' = IF i # 0 THEN splice(queue, i) ELSE queue
            /\ jobs' = [jobs EXCEPT ![id] =
                          [@ EXCEPT !.status = "failed",
                                    !.errorMessage = CancelMessage,
                                    !.completedAt = TRUE]]
            /\ ret' = cancelJobReturn(id, TRUE)
            /\ cancels' = cancels + 1
    /\ lastPass' = <<>>
    /\ delivered' = <<>>
    /\ UNCHANGED <<runningJobs, isProcessing, tickTimers, retryTimers, now,
                   throws, registrations, outside>>

----------------------------------------------------------------------------
(* The progress channel: subscribeToProgress(jobId, callback) is           *)
(* Map.set, unsubscribeFromProgress(jobId) is Map.delete.  An executor     *)
(* reports a milestone of its running job by updateProgress.               *)

emptyMap == [k \in {} |-> ""]

mapSet(m, k, v) == [x \in DOMAIN m \cup {k} |-> IF x = k THEN v ELSE m[x]]

mapDelete(m, k) == [x \in DOMAIN m \ {k} |-> m[x]]

subscribeReturn(id) == [call |-> "subscribeToProgress", id |-> id, value |-> TRUE]

unsubscribeReturn(id) ==
    [call |-> "unsubscribeFromProgress", id |-> id, value |-> TRUE]

subscribeToProgress(jobId, callback) ==
    /\ progressCallbacks' = mapSet(progressCallbacks, jobId, callback)
    /\ subLog' = Append(subLog, [op |-> "subscribe", jobId |-> jobId,
                                 callback |-> callback])
    /\ delivered' = <<>>
    /\ lastPass' = <<>>
    /\ ret' = subscribeReturn(jobId)
    /\ UNCHANGED <<jobs, queue, runningJobs, isProcessing, tickTimers,
                   retryTimers, now, throws, cancels, recurring, outside>>

unsubscribeFromProgress(jobId) ==
    /\ progressCallbacks' = mapDelete(progressCallbacks, jobId)
    /\ subLog' = Append(subLog, [op |-> "unsubscribe", jobId |-> jobId,
                                 callback |-> ""])
    /\ delivered' = <<>>
    /\ lastPass' = <<>>
    /\ ret' = unsubscribeReturn(jobId)
    /\ UNCHANGED <<jobs, queue, runningJobs, isProcessing, tickTimers,
                   retryTimers, now, throws, cancels, recurring, outside>>

\* The executor of running job id reports progress at a milestone.  When
\* the callback throws, the executor's promise is rejected with its error
\* and executeJob's catch block runs.
executorProgress(id, progress) ==
    /\ id \in runningJobs
    /\ IF throwsOn(progressCallbacks, id)
       THEN /\ jobs' = [jobs EXCEPT ![id] = executeJobCaughtCallback(@)]
            /\ retryTimers' =
                  IF canRetry(jobs[id])
                  THEN retryTimers \cup
                         {[job |-> id, delay |-> retryDelay(jobs[id])]}
                  ELSE retryTimers
            /\ runningJobs' = runningJobs \ {id}
            /\ delivered' =
                  caughtEvents(updateProgress(<<>>, progressCallbacks, id,
                                              progress, MilestoneMessage),
                               progressCallbacks, id, jobs[id])
       ELSE /\ delivered' = updateProgress(<<>>, progressCallbacks, id,
                                           progress, MilestoneMessage)
            /\ UNCHANGED <<jobs, runningJobs, retryTimers>>
    /\ lastPass' = <<>>
    /\ ret' = NoReturn
    /\ UNCHANGED <<queue, isProcessing, tickTimers, now, throws, cancels,
                   registrations, outside>>

----------------------------------------------------------------------------
(* scheduleRecurringJob(type, payload, intervalMs, priority): schedule()   *)
(* calls addJob(type, payload, priority) and sets the timer that calls     *)
(* schedule() again; it returns a scheduler id, which is no job id.        *)

recurringReturn == [call |-> "scheduleRecurringJob", id |-> 0, value |-> TRUE]

scheduleReturn(id) == [call |-> "schedule", id |-> id, value |-> TRUE]

scheduleRecurringJob(priority, dt) ==
    /\ addJobBody(priority, DefaultMaxAttempts, dt)
    /\ recurring' = recurring \cup
                       {[scheduler |-> Cardinality(recurring) + 1,
                         priority |-> priority]}
    /\ ret' = recurringReturn

scheduleOnce(t, dt) ==
    /\ t \in recurring
    /\ addJobBody(t.priority, DefaultMaxAttempts, dt)
    /\ recurring' = recurring \ {t}
    /\ ret' = scheduleReturn(Len(jobs) + 1)

\* The callback of the interval timer t: schedule() again, which re-arms t.
schedule(t, dt) ==
    /\ t \in recurring
    /\ addJobBody(t.priority, DefaultMaxAttempts, dt)
    /\ recurring' = recurring
    /\ ret' = scheduleReturn(Len(jobs) + 1)

----------------------------------------------------------------------------
(* The scheduling API, POST /api/scraper/schedule                           *)
(* (src/src/app/api/scraper/schedule/route.ts), called for one zip code:     *)
(* a one-off request of any type calls addJob and answers the job's id; a    *)
(* recurring ingestion request calls scheduleRecurringJob with priority 2    *)
(* and answers what that returns, the scheduler id.  A job id is the job's   *)
(* index in the map; a scheduler id (prefix "scheduler_") is a number above  *)
(* SchedulerIdBase, which no job id is.                                      *)

SchedulerIdBase == 1000

schedulerId(n) == SchedulerIdBase + n

RecurringPriority == 2

RequestTypes == {"scraping", "ingestion", "market_analysis"}

PostReturn(jobId) == [call |-> "POST", id |-> jobId, value |-> TRUE]

\* null as getJob returns it, and as getJobStatus does.
null == [status |-> "null"]

nullStatus == "null"

getJob(jobId) == IF jobId \in 1..Len(jobs) THEN jobs[jobId] ELSE null

getJobStatus(jobId) ==
    IF jobId \in 1..Len(jobs) THEN jobs[jobId].status ELSE nullStatus

POST(type, priority, isRecurring, dt) ==
    IF type = "ingestion" /\ isRecurring
    THEN /\ addJobBody(RecurringPriority, DefaultMaxAttempts, dt)
         /\ recurring' = recurring \cup
                            {[scheduler |-> Cardinality(recurring) + 1,
                              priority |-> RecurringPriority]}
         /\ ret' = PostReturn(schedulerId(Cardinality(recurring) + 1))
    ELSE /\ addJobBody(priority, DefaultMaxAttempts, dt)
         /\ ret' = PostReturn(Len(jobs) + 1)
         /\ UNCHANGED recurring

----------------------------------------------------------------------------
(* DataNormalizationService (src/src/services/DataNormalization.ts).       *)
(* A string is a sequence of one-character strings.  A raw property is a   *)
(* record of its fields; absent names the fields the object does not have  *)
(* (reading one gives undefined), and such a field holds a filler that is  *)
(* never read.  A call returns a value or throws.                          *)

UpperCase == 
    <<"A", "B", "C", "D", "E", "F", "G", "H", "I", "J", "K", "L", "M">> \o
    <<"N", "O", "P", "Q", "R", "S", "T", "U", "V", "W", "X", "Y", "Z">>

LowerCase == 
    <<"a", "b", "c", "d", "e", "f", "g", "h", "i", "j", "k", "l", "m">> \o
    <<"n", "o", "p", "q", "r", "s", "t", "u", "v", "w", "x", "y", "z">>

Digits == {"0", "1", "2", "3", "4", "5", "6", "7", "8", "9"}

Whitespace == {" "}

Letters == {UpperCase[i] : i \in 1..Len(UpperCase)} \cup
           {LowerCase[i] : i \in 1..Len(LowerCase)}

\* \w of a regular expression.
WordChars == Letters \cup Digits \cup {"_"}

toLowerChar(c) ==
    IF \E i \in 1..Len(UpperCase) : UpperCase[i] = c
    THEN LowerCase[CHOOSE i \in 1..Len(UpperCase) : UpperCase[i] = c]
    ELSE c

toUpperChar(c) ==
    IF \E i \in 1..Len(LowerCase) : LowerCase[i] = c
    THEN UpperCase[CHOOSE i \in 1..Len(LowerCase) : LowerCase[i] = c]
    ELSE c

toLowerCase(str) == [i \in 1..Len(str) |-> toLowerChar(str[i])]

toUpperCase(str) == [i \in 1..Len(str) |-> toUpperChar(str[i])]

RECURSIVE trimStart(_)
trimStart(str) ==
    IF str # <<>> /\ Head(str) \in Whitespace THEN trimStart(Tail(str)) ELSE str

RECURSIVE trimEnd(_)
trimEnd(str) ==
    IF str # <<>> /\ str[Len(str)] \in Whitespace
    THEN trimEnd(SubSeq(str, 1, Len(str) - 1))
    ELSE str

trim(str) == trimEnd(trimStart(str))

min(a, b) == IF a < b THEN a ELSE b

max(a, b) == IF a > b THEN a ELSE b

Returned(value) == [threw |-> FALSE, value |-> value]

\* A TypeError: a property of undefined was read.
Thrown == [threw |-> TRUE, value |-> 0]

NoResult == [op |-> "none", out |-> Returned(0)]

Has(property, field) == field \notin property.absent

\* !property.field for a string field and for a number field.
FalsyString(property, field) ==
    ~Has(property, field) \/ property[field] = <<>>

FalsyNumber(property, field) ==
    ~Has(property, field) \/ property[field] = 0

\* str.match(/\d+/) is not null.
matchesDigits(str) == \E i \in 1..Len(str) : str[i] \in Digits

LoopNet == "LoopNet"

Crexi == "Crexi"

RealtyRates == "RealtyRates"

(* calculateConfidence(property): line 103 reads property.address.match,   *)
(* which throws when the address is undefined.                             *)

addressPenalty(property) ==
    (IF FalsyString(property, "address") \/ Len(property.address) < 10
     THEN 20 ELSE 0)
    + (IF ~matchesDigits(property.address) THEN 15 ELSE 0)

locationPenalty(property) ==
    (IF FalsyString(property, "zipCode") THEN 15 ELSE 0)
    + (IF FalsyString(property, "city") THEN 10 ELSE 0)
    + (IF FalsyString(property, "state") THEN 10 ELSE 0)

financialPenalty(property) ==
    (IF FalsyNumber(property, "listingPrice") \/ property.listingPrice <= 0
     THEN 20 ELSE 0)
    + (IF FalsyNumber(property, "sqft") \/ property.sqft <= 0 THEN 15 ELSE 0)

sourceBonus(property) ==
    IF property.source = LoopNet THEN 10
    ELSE IF property.source = Crexi THEN 5
    ELSE 0

calculateConfidence(property) ==
    IF ~Has(property, "address") THEN Thrown
    ELSE Returned(max(0, min(100, 100 - addressPenalty(property)
                                      - locationPenalty(property)
                                      - financialPenalty(property)
                                      + sourceBonus(property))))

(* normalizeAddress(address): toLowerCase, trim, runs of whitespace to one *)
(* space, the ten whole-word replacements, then every character that is    *)
(* neither a word character nor whitespace removed.                         *)

\* replace(/\s+/g, ' ')
RECURSIVE collapseWhitespace(_)
collapseWhitespace(str) ==
    IF str = <<>> THEN <<>>
    ELSE IF Head(str) \in Whitespace
         THEN <<" ">> \o collapseWhitespace(trimStart(Tail(str)))
         ELSE <<Head(str)>> \o collapseWhitespace(Tail(str))

\* Each replace(/\b(long|short)\b/g, 'short'), as <<long, short>>.
Abbreviations == <<
    <<<<"s", "t", "r", "e", "e", "t">>,
      <<"s", "t">>>>,
    <<<<"a", "v", "e", "n", "u", "e">>,
      <<"a", "v", "e">>>>,
    <<<<"r", "o", "a", "d">>,
      <<"r", "d">>>>,
    <<<<"b", "o", "u", "l", "e", "v", "a", "r", "d">>,
      <<"b", "l", "v", "d">>>>,
    <<<<"d", "r", "i", "v", "e">>,
      <<"d", "r">>>>,
    <<<<"l", "a", "n", "e">>,
      <<"l", "n">>>>,
    <<<<"c", "o", "u", "r", "t">>,
      <<"c", "t">>>>,
    <<<<"p", "l", "a", "c", "e">>,
      <<"p", "l">>>>,
    <<<<"p", "a", "r", "k", "w", "a", "y">>,
      <<"p", "k", "w", "y">>>>,
    <<<<"c", "i", "r", "c", "l", "e">>,
      <<"c", "i", "r">>>> >>

RECURSIVE wordPrefix(_)
wordPrefix(str) ==
    IF str # <<>> /\ Head(str) \in WordChars
    THEN <<Head(str)>> \o wordPrefix(Tail(str))
    ELSE <<>>

lookup(table, key, default) ==
    IF \E i \in 1..Len(table) : table[i][1] = key
    THEN table[CHOOSE i \in 1..Len(table) : table[i][1] = key][2]
    ELSE default

\* \b...\b matches a maximal run of word characters as a whole.
RECURSIVE replaceWords(_)
replaceWords(str) ==
    IF str = <<>> THEN <<>>
    ELSE LET word == wordPrefix(str)
         IN  IF word = <<>>
             THEN <<Head(str)>> \o replaceWords(Tail(str))
             ELSE lookup(Abbreviations, word, word)
                  \o replaceWords(SubSeq(str, Len(word) + 1, Len(str)))

keepsChar(c) == c \in WordChars \cup Whitespace

\* replace(/[^\w\s]/g, '')
stripPunctuation(str) == SelectSeq(str, keepsChar)

normalizeAddress(address) ==
    stripPunctuation(replaceWords(collapseWhitespace(trim(toLowerCase(address)))))

typeMap == <<
    <<<<"m", "u", "l", "t", "i", "-", "f", "a", "m", "i", "l", "y">>,
      <<"a", "p", "a", "r", "t", "m", "e", "n", "t">>>>,
    <<<<"m", "u", "l", "t", "i", "f", "a", "m", "i", "l", "y">>,
      <<"a", "p", "a", "r", "t", "m", "e", "n", "t">>>>,
    <<<<"a", "p", "a", "r", "t", "m", "e", "n", "t", " ", "c", "o", "m", "p", "l", "e", "x">>,
      <<"a", "p", "a", "r", "t", "m", "e", "n", "t">>>>,
    <<<<"a", "p", "a", "r", "t", "m", "e", "n", "t", "s">>,
      <<"a", "p", "a", "r", "t", "m", "e", "n", "t">>>>,
    <<<<"o", "f", "f", "i", "c", "e", " ", "b", "u", "i", "l", "d", "i", "n", "g">>,
      <<"o", "f", "f", "i", "c", "e">>>>,
    <<<<"o", "f", "f", "i", "c", "e", " ", "s", "p", "a", "c", "e">>,
      <<"o", "f", "f", "i", "c", "e">>>>,
    <<<<"r", "e", "t", "a", "i", "l", " ", "s", "p", "a", "c", "e">>,
      <<"r", "e", "t", "a", "i", "l">>>>,
    <<<<"s", "h", "o", "p", "p", "i", "n", "g", " ", "c", "e", "n", "t", "e", "r">>,
      <<"r", "e", "t", "a", "i", "l">>>>,
    <<<<"s", "t", "r", "i", "p", " ", "m", "a", "l", "l">>,
      <<"r", "e", "t", "a", "i", "l">>>>,
    <<<<"w", "a", "r", "e", "h", "o", "u", "s", "e">>,
      <<"i", "n", "d", "u", "s", "t", "r", "i", "a", "l">>>>,
    <<<<"d", "i", "s", "t", "r", "i", "b", "u", "t", "i", "o", "n">>,
      <<"i", "n", "d", "u", "s", "t", "r", "i", "a", "l">>>>,
    <<<<"m", "a", "n", "u", "f", "a", "c", "t", "u", "r", "i", "n", "g">>,
      <<"i", "n", "d", "u", "s", "t", "r", "i", "a", "l">>>>,
    <<<<"f", "l", "e", "x", " ", "s", "p", "a", "c", "e">>,
      <<"i", "n", "d", "u", "s", "t", "r", "i", "a", "l">>>>,
    <<<<"m", "i", "x", "e", "d", " ", "u", "s", "e">>,
      <<"m", "i", "x", "e", "d", "-", "u", "s", "e">>>>,
    <<<<"m", "i", "x", "e", "d", "-", "u", "s", "e">>,
      <<"m", "i", "x", "e", "d", "-", "u", "s", "e">>>> >>

normalizePropertyType(type) ==
    LET normalized == trim(toLowerCase(type))
    IN  lookup(typeMap, normalized, normalized)

stateMap == <<
    <<<<"g", "e", "o", "r", "g", "i", "a">>,
      <<"G", "A">>>>,
    <<<<"f", "l", "o", "r", "i", "d", "a">>,
      <<"F", "L">>>>,
    <<<<"a", "l", "a", "b", "a", "m", "a">>,
      <<"A", "L">>>>,
    <<<<"t", "e", "n", "n", "e", "s", "s", "e", "e">>,
      <<"T", "N">>>>,
    <<<<"n", "o", "r", "t", "h", " ", "c", "a", "r", "o", "l", "i", "n", "a">>,
      <<"N", "C">>>>,
    <<<<"s", "o", "u", "t", "h", " ", "c", "a", "r", "o", "l", "i", "n", "a">>,
      <<"S", "C">>>> >>

normalizeState(state) ==
    lookup(stateMap, trim(toLowerCase(state)), toUpperCase(state))

isDigit(c) == c \in Digits

RECURSIVE padStart(_, _, _)
padStart(str, length, c) ==
    IF Len(str) >= length THEN str ELSE padStart(<<c>> \o str, length, c)

\* zipCode.replace(/\D/g, '').substring(0, 5).padStart(5, '0')
normalizeZipCode(zipCode) ==
    LET digits == SelectSeq(zipCode, isDigit)
    IN  padStart(SubSeq(digits, 1, min(5, Len(digits))), 5, "0")

(* Numbers.  listingPrice and sqft are integers >= 0 or undefined.  A      *)
(* computed number is NaN or an exact fraction num / den; pricePerSqft is   *)
(* NaN, Infinity, or a count of hundredths.                                 *)

abs(a) == IF a < 0 THEN -a ELSE a

RECURSIVE gcd(_, _)
gcd(a, b) == IF b = 0 THEN a ELSE gcd(b, a % b)

NaN == [nan |-> TRUE, num |-> 0, den |-> 1]

fraction(n, d) ==
    LET g == gcd(abs(n), d)
    IN  [nan |-> FALSE, num |-> n \div g, den |-> d \div g]

plus(x, y) ==
    IF x.nan \/ y.nan THEN NaN
    ELSE fraction(x.num * y.den + y.num * x.den, x.den * y.den)

times(x, y) ==
    IF x.nan \/ y.nan THEN NaN
    ELSE fraction(x.num * y.num, x.den * y.den)

\* x >= y; any comparison with NaN is false.
atLeast(x, y) == ~x.nan /\ ~y.nan /\ x.num * y.den >= y.num * x.den

\* Math.round(x * 100) / 100 of x = listingPrice / sqft.
roundedQuotient(property) ==
    IF ~Has(property, "listingPrice") \/ ~Has(property, "sqft")
    THEN [kind |-> "NaN", hundredths |-> 0]
    ELSE IF property.sqft = 0
         THEN IF property.listingPrice = 0
              THEN [kind |-> "NaN", hundredths |-> 0]
              ELSE [kind |-> "Infinity", hundredths |-> 0]
         ELSE [kind |-> "finite",
               hundredths |-> (200 * property.listingPrice + property.sqft)
                                 \div (2 * property.sqft)]

(* normalizeProperty(rawProperty): reads .toLowerCase of address, state    *)
(* and propertyType and .trim of city, each of which throws on undefined.  *)

normalizeProperty(rawProperty) ==
    IF \E field \in {"address", "state", "propertyType", "city"} :
          ~Has(rawProperty, field)
    THEN Thrown
    ELSE Returned(
           [id |-> rawProperty.id,
            source |-> rawProperty.source,
            normalizedAddress |-> normalizeAddress(rawProperty.address),
            city |-> trim(rawProperty.city),
            state |-> normalizeState(rawProperty.state),
            zipCode |-> IF FalsyString(rawProperty, "zipCode")
                        THEN <<"0", "0", "0", "0", "0">>
                        ELSE normalizeZipCode(rawProperty.zipCode),
            propertyType |-> normalizePropertyType(rawProperty.propertyType),
            listingPrice |-> rawProperty.listingPrice,
            sqft |-> rawProperty.sqft,
            pricePerSqft |-> roundedQuotient(rawProperty),
            confidence |-> calculateConfidence(rawProperty).value,
            duplicateGroup |-> 0,
            absent |-> rawProperty.absent \cap {"listingPrice", "sqft"}])

(* levenshteinDistance(str1, str2): the matrix, one row per character of   *)
(* str2; position k of a row is column k - 1.                               *)

\* The cells of columns j.. of the row of character c; left is column j - 1.
RECURSIVE fillRow(_, _, _, _, _)
fillRow(left, above, c, str1, j) ==
    IF j > Len(str1) THEN <<>>
    ELSE LET cell == IF c = str1[j]
                     THEN above[j]
                     ELSE min(min(above[j] + 1, left + 1), above[j + 1] + 1)
         IN  <<cell>> \o fillRow(cell, above, c, str1, j + 1)

RECURSIVE fillMatrix(_, _, _, _)
fillMatrix(above, str1, str2, i) ==
    IF i > Len(str2) THEN above[Len(str1) + 1]
    ELSE fillMatrix(<<i>> \o fillRow(i, above, str2[i], str1, 1),
                    str1, str2, i + 1)

levenshteinDistance(str1, str2) ==
    fillMatrix([j \in 1..(Len(str1) + 1) |-> j - 1], str1, str2, 1)

stringSimilarity(str1, str2) ==
    LET longer  == IF Len(str1) > Len(str2) THEN str1 ELSE str2
        shorter == IF Len(str1) > Len(str2) THEN str2 ELSE str1
    IN  IF Len(longer) = 0 THEN fraction(1, 1)
        ELSE fraction(Len(longer) - levenshteinDistance(longer, shorter),
                      Len(longer))

\* (1 - Math.abs(a - b) / Math.max(a, b)) of a field of two properties;
\* undefined operands and 0 / 0 give NaN.
closeness(prop1, prop2, field) ==
    IF ~Has(prop1, field) \/ ~Has(prop2, field) THEN NaN
    ELSE LET a == prop1[field]
             b == prop2[field]
         IN  IF max(a, b) = 0 THEN NaN
             ELSE fraction(max(a, b) - abs(a - b), max(a, b))

weight(condition, hundredths) ==
    IF condition THEN fraction(hundredths, 100) ELSE fraction(0, 1)

\* Math.min(1, similarity); NaN stays NaN.
minOne(similarity) ==
    IF similarity.nan THEN NaN
    ELSE IF atLeast(similarity, fraction(1, 1)) THEN fraction(1, 1)
    ELSE similarity

calculateSimilarity(prop1, prop2) ==
    LET address  == times(stringSimilarity(prop1.normalizedAddress,
                                           prop2.normalizedAddress),
                          fraction(4, 10))
        location == plus(weight(toLowerCase(prop1.city) = toLowerCase(prop2.city), 15),
                         plus(weight(prop1.state = prop2.state, 10),
                              weight(prop1.zipCode = prop2.zipCode, 5)))
        type     == weight(prop1.propertyType = prop2.propertyType, 10)
        sqft     == times(closeness(prop1, prop2, "sqft"), fraction(1, 10))
        price    == times(closeness(prop1, prop2, "listingPrice"), fraction(1, 10))
    IN  minOne(plus(plus(plus(address, location), type), plus(sqft, price)))

(* findDuplicates(properties, threshold).  A group lists its members as    *)
(* positions in properties: the groups hold the very objects of the input   *)
(* array.  processed is the Set of ids.                                     *)

DefaultThreshold == fraction(85, 100)

\* The inner loop comparing with the member that joined last.
RECURSIVE collectGroupChained(_, _, _, _, _, _)
collectGroupChained(properties, threshold, i, j, currentGroup, processed) ==
    IF j > Len(properties)
    THEN [currentGroup |-> currentGroup, processed |-> processed]
    ELSE IF properties[j].id \in processed
         THEN collectGroupChained(properties, threshold, i, j + 1,
                                  currentGroup, processed)
         ELSE IF atLeast(calculateSimilarity(
                            properties[currentGroup[Len(currentGroup)]],
                            properties[j]),
                         threshold)
              THEN collectGroupChained(properties, threshold, i, j + 1,
                                       Append(currentGroup, j),
                                       processed \cup {properties[j].id})
              ELSE collectGroupChained(properties, threshold, i, j + 1,
                                       currentGroup, processed)

\* The inner loop, from position j, for the seed at position i.
RECURSIVE collectGroup(_, _, _, _, _, _)
collectGroup(properties, threshold, i, j, currentGroup, processed) ==
    IF j > Len(properties)
    THEN [currentGroup |-> currentGroup, processed |-> processed]
    ELSE IF properties[j].id \in processed
         THEN collectGroup(properties, threshold, i, j + 1, currentGroup,
                           processed)
         ELSE IF atLeast(calculateSimilarity(properties[i], properties[j]),
                         threshold)
              THEN collectGroup(properties, threshold, i, j + 1,
                                Append(currentGroup, j),
                                processed \cup {properties[j].id})
              ELSE collectGroup(properties, threshold, i, j + 1, currentGroup,
                                processed)

\* The outer loop, from position i: the groups it pushes.  pushGroup is the
\* end of an iteration, g what its inner loop left.
RECURSIVE collectGroups(_, _, _, _), pushGroup(_, _, _, _)
pushGroup(properties, threshold, i, g) ==
    (IF Len(g.currentGroup) > 1 THEN <<g.currentGroup>> ELSE <<>>)
    \o collectGroups(properties, threshold, i + 1, g.processed)

collectGroups(properties, threshold, i, processed) ==
    IF i > Len(properties) THEN <<>>
    ELSE IF properties[i].id \in processed
         THEN collectGroups(properties, threshold, i + 1, processed)
         ELSE pushGroup(properties, threshold, i,
                        collectGroup(properties, threshold, i, i + 1, <<i>>,
                                     processed \cup {properties[i].id}))

findDuplicates(properties, threshold) ==
    collectGroups(properties, threshold, 1, {})

(* deduplicateProperties(properties).  The k-th group's fresh groupId is k. *)

\* group.reduce((best, current) => current.confidence > best.confidence ? ...)
RECURSIVE reduceBest(_, _, _, _)
reduceBest(properties, group, k, best) ==
    IF k > Len(group) THEN best
    ELSE reduceBest(properties, group, k + 1,
                    IF properties[group[k]].confidence
                          > properties[best].confidence
                    THEN group[k] ELSE best)

bestProperty(properties, group) == reduceBest(properties, group, 2, group[1])

\* The properties array after every member of every group has been marked.
marked(properties, duplicateGroups) ==
    [k \in 1..Len(properties) |->
        IF \E g \in 1..Len(duplicateGroups) :
              \E m \in 1..Len(duplicateGroups[g]) : duplicateGroups[g][m] = k
        THEN [properties[k] EXCEPT !.duplicateGroup =
                 CHOOSE g \in 1..Len(duplicateGroups) :
                    \E m \in 1..Len(duplicateGroups[g]) :
                       duplicateGroups[g][m] = k]
        ELSE properties[k]]

\* The loop over properties that pushes the non-duplicates, from position k.
RECURSIVE nonDuplicates(_, _, _)
nonDuplicates(properties, duplicateIds, k) ==
    IF k > Len(properties) THEN <<>>
    ELSE (IF properties[k].id \notin duplicateIds THEN <<k>> ELSE <<>>)
         \o nonDuplicates(properties, duplicateIds, k + 1)

\* The positions deduplicatedProperties holds, in its order: the properties
\* whose id is in no group, then each group's best.
keptPositions(properties, duplicateGroups) ==
    LET inGroup == {x \in 1..Len(properties) :
                      \E g \in 1..Len(duplicateGroups) :
                         \E m \in 1..Len(duplicateGroups[g]) :
                            duplicateGroups[g][m] = x}
        duplicateIds == {properties[x].id : x \in inGroup}
    IN  nonDuplicates(properties, duplicateIds, 1)
        \o [g \in 1..Len(duplicateGroups) |->
               bestProperty(properties, duplicateGroups[g])]

\* deduplicateProperties from line 240 on, duplicateGroups being found.
deduplicated(properties, duplicateGroups) ==
    LET kept == keptPositions(properties, duplicateGroups)
        after == marked(properties, duplicateGroups)
    IN  [deduplicatedProperties |-> [k \in 1..Len(kept) |-> after[kept[k]]],
         duplicateGroups |->
            [g \in 1..Len(duplicateGroups) |->
                [m \in 1..Len(duplicateGroups[g]) |->
                    after[duplicateGroups[g][m]]]],
         removedCount |-> Len(properties) - Len(kept),
         kept |-> kept,
         groups |-> duplicateGroups]

deduplicateProperties(properties) ==
    deduplicated(properties, findDuplicates(properties, DefaultThreshold))

(* processDataBatch(rawProperties): normalizes every record, deduplicates, *)
(* and reports the statistics.                                              *)

RECURSIVE sumConfidence(_)
sumConfidence(properties) ==
    IF properties = <<>> THEN 0
    ELSE Head(properties).confidence + sumConfidence(Tail(properties))

\* Math.round(average * 100) / 100, in hundredths; 0 / 0 is NaN.
averageConfidence(properties) ==
    IF Len(properties) = 0 THEN [kind |-> "NaN", hundredths |-> 0]
    ELSE [kind |-> "finite",
          hundredths |-> (200 * sumConfidence(properties) + Len(properties))
                            \div (2 * Len(properties))]

\* What processDataBatch returns, d being what deduplicateProperties
\* returned for normalizedProperties.
batchResult(rawProperties, normalizedProperties, d) ==
    [normalizedProperties |-> marked(normalizedProperties, d.groups),
     deduplicatedProperties |-> d.deduplicatedProperties,
     statistics |->
        [totalInput |-> Len(rawProperties),
         normalizedCount |-> Len(normalizedProperties),
         duplicatesFound |-> Len(d.duplicateGroups),
         finalCount |-> Len(d.deduplicatedProperties),
         averageConfidence |-> averageConfidence(d.deduplicatedProperties)],
     kept |-> d.kept,
     groups |-> d.groups]

\* rawProperties.map(prop => this.normalizeProperty(prop)), no record throwing.
normalizedProperties(rawProperties) ==
    [k \in 1..Len(rawProperties) |-> normalizeProperty(rawProperties[k]).value]

\* processDataBatch from line 300 on.
deduplicateBatch(rawProperties, normalized) ==
    batchResult(rawProperties, normalized, deduplicateProperties(normalized))

processDataBatch(rawProperties) ==
    IF \E k \in 1..Len(rawProperties) : normalizeProperty(rawProperties[k]).threw
    THEN Thrown
    ELSE Returned(deduplicateBatch(rawProperties,
                                   normalizedProperties(rawProperties)))

----------------------------------------------------------------------------
(* Calls of the service on the argument batch.                             *)

rawProperty(id, source, address, city, state, zipCode, propertyType, listingPrice, sqft, absent) ==
    [id |-> id, source |-> source, address |-> address, city |-> city,
     state |-> state, zipCode |-> zipCode, propertyType |-> propertyType,
     listingPrice |-> listingPrice, sqft |-> sqft, absent |-> absent]

Call(op, out) ==
    /\ result' = [op |-> op, out |-> out]
    /\ UNCHANGED <<batch, queueVars, channelVars, pipelineVars>>

CallCalculateConfidence ==
    /\ Len(batch) = 1
    /\ Call("calculateConfidence", calculateConfidence(batch[1]))

CallNormalizeProperty ==
    /\ Len(batch) = 1
    /\ Call("normalizeProperty", normalizeProperty(batch[1]))

CallProcessDataBatch == Call("processDataBatch", processDataBatch(batch))

----------------------------------------------------------------------------
(* PropertyIngestionPipeline.  A run is one call of ingestByZipCode; pc is *)
(* the await it is suspended at: "scrape" (a scraper call), "delay" (the    *)
(* 2000 ms timer between sources), "find" (prisma.property.findFirst),      *)
(* "create" (prisma.property.create); "done" and "failed" are the promise   *)
(* of the run fulfilled and rejected.                                       *)

DefaultSources == <<LoopNet, Crexi, RealtyRates>>

KnownSources == {LoopNet, Crexi, RealtyRates}

\* What a platform's scraper resolves with: its one listing.
scraped(source) ==
    IF source = LoopNet
    THEN <<rawProperty("loopnet_001", LoopNet, <<"2", "5", "0", " ", "T", "e", "c", "h">>,
                       <<"A", "t", "l", "a", "n", "t", "a">>, <<"G", "A">>, <<"3", "0", "3", "0", "9">>, <<"O", "f", "f", "i", "c", "e">>,
                       5000, 100, {})>>
    ELSE IF source = Crexi
    THEN <<rawProperty("crexi_001", Crexi, <<"1", "8", " ", "P", "e", "a", "c", "h">>,
                       <<"A", "t", "l", "a", "n", "t", "a">>, <<"G", "A">>, <<"3", "0", "3", "0", "9">>,
                       <<"A", "p", "a", "r", "t", "m", "e", "n", "t">>, 4000, 100, {})>>
    ELSE <<rawProperty("realtyrates_001", RealtyRates, <<"3", "3", " ", "R", "i", "v", "e", "r">>,
                       <<"A", "t", "l", "a", "n", "t", "a">>, <<"G", "A">>, <<"3", "0", "3", "3", "9">>,
                       <<"I", "n", "d", "u", "s", "t", "r", "i", "a", "l">>, 5000, 125, {})>>

newRun(sources, enableValidation) ==
    [sources |-> sources, enableValidation |-> enableValidation,
     pc |-> "scrape", k |-> 0, allProperties |-> <<>>,
     queried |-> <<>>, resolved |-> <<>>, rejected |-> {},
     scrapedData |-> <<>>, validatedData |-> <<>>, i |-> 0,
     inserted |-> 0, skipped |-> 0, errors |-> 0]

\* The filter of validateProperties.  It reads property.address, a field a
\* NormalizedProperty does not have.
isValid(property) ==
    IF "address" \notin DOMAIN property THEN FALSE
    ELSE IF Len(property.address) < 5 THEN FALSE
    ELSE IF FalsyNumber(property, "listingPrice") \/ property.listingPrice <= 0
    THEN FALSE
    ELSE IF FalsyNumber(property, "sqft") \/ property.sqft <= 0 THEN FALSE
    ELSE IF property.city = <<>> \/ property.state = <<>> THEN FALSE
    ELSE IF property.listingPrice < 10 * property.sqft
            \/ property.listingPrice > 2000 * property.sqft
    THEN FALSE
    ELSE TRUE

RECURSIVE validateProperties(_)
validateProperties(properties) ==
    IF properties = <<>> THEN <<>>
    ELSE (IF isValid(Head(properties)) THEN <<Head(properties)>> ELSE <<>>)
         \o validateProperties(Tail(properties))

\* The where clause of findFirst.
where(property) ==
    [address |-> property.normalizedAddress, city |-> property.city,
     state |-> property.state, zip_code |-> property.zipCode]

findFirst(rows, key) ==
    \E x \in 1..Len(rows) :
        /\ rows[x].address = key.address
        /\ rows[x].city = key.city
        /\ rows[x].state = key.state
        /\ rows[x].zip_code = key.zip_code

\* The row prisma.property.create stores.
data(property) ==
    [address |-> property.normalizedAddress, city |-> property.city,
     state |-> property.state, zip_code |-> property.zipCode,
     listing_source |-> property.source]

\* insertProperties, its loop from property i up to the next await.
insertProperties(run, i) ==
    IF i > Len(run.validatedData) THEN [run EXCEPT !.pc = "done", !.i = i]
    ELSE [run EXCEPT !.pc = "find", !.i = i]

\* ingestByZipCode from the return of processDataBatch up to the next await.
afterProcess(run, processedData) ==
    IF processedData.threw
    THEN [run EXCEPT !.pc = "failed", !.scrapedData = run.allProperties]
    ELSE insertProperties(
           [run EXCEPT
              !.scrapedData = run.allProperties,
              !.validatedData =
                 IF run.enableValidation
                 THEN validateProperties(
                        processedData.value.deduplicatedProperties)
                 ELSE processedData.value.deduplicatedProperties],
           1)

\* ingestByZipCode from the return of scrapeFromSources up to the next await.
afterScrape(run) == afterProcess(run, processDataBatch(run.allProperties))

\* scrapeFromSources, its loop from source k up to the next await: an
\* unknown source is skipped, a known one has its scraper called.
RECURSIVE scrapeFromSources(_, _)
scrapeFromSources(run, k) ==
    IF k > Len(run.sources) THEN afterScrape([run EXCEPT !.k = k])
    ELSE IF run.sources[k] \in KnownSources
         THEN [run EXCEPT !.pc = "scrape", !.k = k,
                          !.queried = Append(@, run.sources[k])]
         ELSE scrapeFromSources(run, k + 1)

\* The loop of scrapeFromSources without its try statement: the rejection
\* leaves scrapeFromSources and ingestByZipCode.
rethrowScrape(run) ==
    [run EXCEPT !.rejected = @ \cup {run.k}, !.pc = "failed"]

\* The catch block of the loop of scrapeFromSources: the loop goes on.
catchScrape(run) ==
    scrapeFromSources([run EXCEPT !.rejected = @ \cup {run.k}], run.k + 1)

Step(r, run) ==
    /\ runs' = [runs EXCEPT ![r] = run]
    /\ UNCHANGED <<batch, result, queueVars, channelVars>>

ingestByZipCode(sources, enableValidation) ==
    /\ runs' = Append(runs,
                      scrapeFromSources(newRun(sources, enableValidation), 1))
    /\ UNCHANGED <<store, batch, result, queueVars, channelVars>>

\* The scraper's promise settles.
scrapeSettles(r, ok) ==
    /\ runs[r].pc = "scrape"
    /\ Step(r, IF ok
               THEN [runs[r] EXCEPT
                       !.allProperties = @ \o scraped(runs[r].sources[runs[r].k]),
                       !.resolved = Append(@, runs[r].sources[runs[r].k]),
                       !.pc = "delay"]
               ELSE catchScrape(runs[r]))
    /\ UNCHANGED store

\* The 2000 ms timer between sources fires.
scrapeDelay(r) ==
    /\ runs[r].pc = "delay"
    /\ Step(r, scrapeFromSources(runs[r], runs[r].k + 1))
    /\ UNCHANGED store

\* The promise of findFirst settles: with the row found or null, or with
\* an error.
findFirstSettles(r, ok) ==
    /\ runs[r].pc = "find"
    /\ LET run == runs[r]
           property == run.validatedData[run.i]
       IN  Step(r, IF ~ok
                   THEN insertProperties([run EXCEPT !.errors = @ + 1],
                                         run.i + 1)
                   ELSE IF findFirst(store, where(property))
                   THEN insertProperties([run EXCEPT !.skipped = @ + 1],
                                         run.i + 1)
                   ELSE [run EXCEPT !.pc = "create"])
    /\ UNCHANGED store

\* The promise of create settles: the row is stored, or the call failed.
createSettles(r, ok) ==
    /\ runs[r].pc = "create"
    /\ LET run == runs[r]
           property == run.validatedData[run.i]
       IN  /\ Step(r, IF ok
                      THEN insertProperties([run EXCEPT !.inserted = @ + 1],
                                            run.i + 1)
                      ELSE insertProperties([run EXCEPT !.errors = @ + 1],
                                            run.i + 1))
           /\ store' = IF ok THEN Append(store, data(property)) ELSE store

----------------------------------------------------------------------------
\* The queue as constructed.
InitQueue ==
    /\ jobs = <<>>
    /\ queue = <<>>
    /\ runningJobs = {}
    /\ isProcessing = FALSE
    /\ tickTimers = 0
    /\ retryTimers = {}
    /\ now = 0
    /\ lastPass = <<>>
    /\ ret = NoReturn
    /\ throws = 0
    /\ cancels = 0
    /\ progressCallbacks = emptyMap
    /\ recurring = {}
    /\ delivered = <<>>
    /\ subLog = <<>>

InitPipeline ==
    /\ runs = <<>>
    /\ store = <<>>

Init ==
    /\ InitQueue
    /\ InitPipeline
    /\ batch = <<>>
    /\ result = NoResult

(* The environment: API calls, timers firing, executors settling, within   *)
(* the budgets maxJobs, maxThrows and maxCancels.  cancelJob is called     *)
(* with the id of a job of the map or with an id the map does not hold.    *)

Calls(maxJobs, priorities, limits, steps) ==
    /\ Len(jobs) < maxJobs
    /\ \E p \in priorities, m \in limits, dt \in steps : addJob(p, m, dt)

Cancels(maxCancels) ==
    \E id \in 1..(Len(jobs) + 1) :
        /\ IF refusesCancel(jobs, id) THEN TRUE ELSE cancels < maxCancels
        /\ cancelJob(id)

Settles(maxThrows) ==
    \E id \in runningJobs, ok \in BOOLEAN :
        /\ IF ok THEN TRUE ELSE throws < maxThrows
        /\ executeJobSettle(id, ok)

RetryTimers == \E t \in retryTimers : retryTimer(t)

(* Jobs of any priority with the default maxAttempts. *)

Next ==
    \/ Calls(MaxJobs, Priorities, {DefaultMaxAttempts}, {0, 1})
    \/ Cancels(MaxCancels)
    \/ rescheduleTimer
    \/ Settles(MaxThrows)
    \/ RetryTimers

Spec == Init /\ [][Next]_vars

(* Jobs of the default priority with any maxAttempts. *)

NextRetry ==
    \/ Calls(MaxRetryJobs, {DefaultPriority}, AttemptLimits, {1})
    \/ Cancels(MaxRetryCancels)
    \/ rescheduleTimer
    \/ Settles(MaxRetryThrows)
    \/ RetryTimers

SpecRetry == Init /\ [][NextRetry]_vars

(* Timers fire and executors return or throw. *)

Fairness(maxThrows) ==
    /\ WF_vars(rescheduleTimer)
    /\ WF_vars(RetryTimers)
    /\ WF_vars(Settles(maxThrows))

SpecRetryFair == SpecRetry /\ Fairness(MaxRetryThrows)

(* Four consecutive addJob calls with the priorities [3,1,2,1] on the      *)
(* empty idle queue, then timers, executors and cancelJob calls.           *)

BurstPriorities == <<3, 1, 2, 1>>

BurstCalls ==
    /\ Len(jobs) < Len(BurstPriorities)
    /\ \E dt \in {0, 1} :
          addJob(BurstPriorities[Len(jobs) + 1], DefaultMaxAttempts, dt)

BurstDone == Len(jobs) = Len(BurstPriorities)

NextBurst ==
    \/ BurstCalls
    \/ BurstDone /\ Cancels(MaxCancels)
    \/ BurstDone /\ rescheduleTimer
    \/ BurstDone /\ Settles(MaxThrows)
    \/ BurstDone /\ RetryTimers

SpecBurst == Init /\ [][NextBurst]_vars

(* The progress channel: jobs with maxAttempts 1 or the default, callers   *)
(* subscribing and unsubscribing callbacks for the jobs they added, and     *)
(* executors reporting milestones.                                          *)

Callbacks == {"cb1", "cb2"}

MilestoneProgress == {30, 60}

Subscribes(maxSubs) ==
    \E jobId \in 1..Len(jobs), callback \in Callbacks :
        /\ Len(subLog) < maxSubs
        /\ subscribeToProgress(jobId, callback)

Unsubscribes(maxSubs) ==
    \E jobId \in 1..Len(jobs) :
        /\ Len(subLog) < maxSubs
        /\ unsubscribeFromProgress(jobId)

Milestones ==
    \E id \in runningJobs, progress \in MilestoneProgress :
        executorProgress(id, progress)

NextProgress ==
    \/ Calls(MaxProgressJobs, {DefaultPriority}, {1, DefaultMaxAttempts}, {1})
    \/ Subscribes(MaxSubs)
    \/ Unsubscribes(MaxSubs)
    \/ Milestones
    \/ rescheduleTimer
    \/ Settles(MaxProgressThrows)
    \/ RetryTimers

SpecProgress == Init /\ [][NextProgress]_vars

(* Recurrences: scheduleRecurringJob calls, their interval timers firing,   *)
(* cancelJob calls, timers and executors.                                   *)

ScheduleRecurrings(maxSchedulers, maxJobs) ==
    /\ Cardinality(recurring) < maxSchedulers
    /\ Len(jobs) < maxJobs
    /\ \E priority \in Priorities : scheduleRecurringJob(priority, 1)

IntervalTimers(maxJobs) ==
    /\ Len(jobs) < maxJobs
    /\ \E t \in recurring : schedule(t, 1)

NextRecurring ==
    \/ ScheduleRecurrings(MaxSchedulers, MaxRecurringJobs)
    \/ IntervalTimers(MaxRecurringJobs)
    \/ Cancels(MaxCancels)
    \/ rescheduleTimer
    \/ Settles(MaxThrows)
    \/ RetryTimers

SpecRecurring == Init /\ [][NextRecurring]_vars

(* Single raw records: every combination of a missing (undefined), an      *)
(* empty and a present value of the fields the confidence reads.  An        *)
(* undefined field holds no value: its slot is the empty one of its type.    *)

Sources == {LoopNet, Crexi, RealtyRates}

RawRecords ==
    LET Addresses ==
            {<<>>, <<"o", "a", "k">>, <<"1", "2", " ", "o", "a", "k">>, <<"o", "a", "k", " ", "s", "t", "r", "e", "e", "t">>,
             <<"1", "2", "0", " ", "o", "a", "k", " ", "s", "t", "r", "e", "e", "t">>}
        Strings(value) == {<<>>, value}
        Numbers(value) == {0, value}
        Optional ==
            {"address", "city", "state", "zipCode", "listingPrice", "sqft"}
        Present(absent, field, values, empty) ==
            IF field \in absent THEN {empty} ELSE values
    IN  {rawProperty("p1", source, address, city, state, zipCode,
                     <<"o", "f", "f", "i", "c", "e">>, listingPrice, sqft, absent) :
            <<absent, source, address, city, state, zipCode, listingPrice,
              sqft>>
                \in UNION { {absent} \X Sources
                       \X Present(absent, "address", Addresses, <<>>)
                       \X Present(absent, "city", Strings(<<"A", "t", "l", "a", "n", "t", "a">>), <<>>)
                       \X Present(absent, "state", Strings(<<"G", "A">>), <<>>)
                       \X Present(absent, "zipCode", Strings(<<"3", "0", "3", "0", "1">>), <<>>)
                       \X Present(absent, "listingPrice", Numbers(5000), 0)
                       \X Present(absent, "sqft", Numbers(100), 0)
                     : absent \in SUBSET Optional }}

InitNormalize ==
    /\ InitQueue
    /\ InitPipeline
    /\ batch \in {<<raw>> : raw \in RawRecords}
    /\ result = NoResult

NextNormalize ==
    \/ CallCalculateConfidence
    \/ CallNormalizeProperty
    \/ CallProcessDataBatch

SpecNormalize == InitNormalize /\ [][NextNormalize]_vars

(* Lists of complete records for deduplication: two addresses one         *)
(* character apart and one unlike both, sources of different confidence,    *)
(* ids that may repeat within a list.                                       *)


DedupRecords ==
    LET DedupIds == {"p1", "p2", "p3"}
        DedupAddresses ==
            {<<"1", "2", " ", "O", "a", "k", " ", "S", "t">>, <<"1", "3", " ", "O", "a", "k", " ", "S", "t">>, <<"9", " ", "E", "l", "m", " ", "R", "d">>}
    IN  {rawProperty(id, source, address, <<"A", "t", "l", "a", "n", "t", "a">>, <<"G", "A">>,
                     <<"3", "0", "3", "0", "1">>, <<"o", "f", "f", "i", "c", "e">>, 5000, 100, {}) :
            <<id, source, address>>
                \in DedupIds \X {LoopNet, RealtyRates} \X DedupAddresses}

Lists(records, maxLen) ==
    UNION {[1..n -> records] : n \in 0..maxLen}

CallDeduplicateProperties ==
    Call("deduplicateProperties",
         Returned(deduplicateProperties(normalizedProperties(batch))))

InitDedup ==
    /\ InitQueue
    /\ InitPipeline
    /\ batch \in Lists(DedupRecords, MaxBatch)
    /\ result = NoResult

NextDedup == CallDeduplicateProperties \/ CallProcessDataBatch

SpecDedup == InitDedup /\ [][NextDedup]_vars

(* Batches of five records for processDataBatch: record 1 fixed, records  *)
(* 2 and 4 at its address or one character off, record 3 elsewhere or at    *)
(* record 1's address, record 5 elsewhere with sqft = 0.  A record carries   *)
(* its own id or the id of record 1.                                        *)

Batches ==
    LET BatchRecord(id, source, address, listingPrice, sqft) ==
            rawProperty(id, source, address, <<"A", "t", "l", "a", "n", "t", "a">>, <<"G", "A">>,
                        <<"3", "0", "3", "0", "1">>, <<"o", "f", "f", "i", "c", "e">>, listingPrice, sqft, {})
        NearAddresses == {<<"1", "2", " ", "O", "a", "k", " ", "S", "t">>, <<"1", "3", " ", "O", "a", "k", " ", "S", "t">>}
        OtherAddresses == {<<"1", "2", " ", "O", "a", "k", " ", "S", "t">>, <<"9", " ", "E", "l", "m", " ", "R", "d">>, <<"7", "7", " ", "P", "i", "n", "e">>}
        IdOf(own) == {own, "p1"}
    IN  {<<BatchRecord("p1", Crexi, <<"1", "2", " ", "O", "a", "k", " ", "S", "t">>, 5000, 100),
           BatchRecord(id2, source2, address2, 5000, 100),
           BatchRecord(id3, Crexi, address3, 5000, 100),
           BatchRecord(id4, source4, address4, 5000, 100),
           BatchRecord(id5, Crexi, <<"4", "0", "0", " ", "B", "a", "y", " ", "A", "v", "e">>, listingPrice5, 0)>> :
            <<id2, id3, id4, id5, source2, source4, address2, address4,
              address3, listingPrice5>>
                \in IdOf("p2") \X IdOf("p3") \X IdOf("p4") \X IdOf("p5")
                     \X Sources \X Sources
                     \X NearAddresses \X NearAddresses \X OtherAddresses
                     \X {0, 5000}}

InitBatch ==
    /\ InitQueue
    /\ InitPipeline
    /\ batch \in Batches
    /\ result = NoResult

NextBatch == CallProcessDataBatch

SpecBatch == InitBatch /\ [][NextBatch]_vars

(* Pairs of records for findDuplicates: the second record differs from the *)
(* first in any of its id, address, city, zip code, type, price, sqft and   *)
(* source; both have sqft = 0 in some pairs.                                 *)

Pairs ==
    LET PairRecord(id, source, address, city, zipCode, propertyType,
                   listingPrice, sqft) ==
            rawProperty(id, source, address, city, <<"G", "A">>, zipCode,
                        propertyType, listingPrice, sqft, {})
        \* Addresses one character apart, of two lengths, and equal ones.
        PairAddresses ==
            {<<<<"1", "2", " ", "O", "a", "k", " ", "S", "t">>, <<"1", "3", " ", "O", "a", "k", " ", "S", "t">>>>,
             <<<<"1", "A">>, <<"1", "B">>>>,
             <<<<"1", "2", " ", "O", "a", "k", " ", "S", "t">>, <<"1", "2", " ", "O", "a", "k", " ", "S", "t">>>>}
        PairSqfts == {<<100, 100>>, <<100, 125>>, <<0, 0>>}
    IN  {<<PairRecord("p1", Crexi, addresses[1], <<"A", "t", "l", "a", "n", "t", "a">>, <<"3", "0", "3", "0", "1">>,
                      <<"o", "f", "f", "i", "c", "e">>, 5000, sqfts[1]),
           PairRecord(id, source, addresses[2], city, zipCode, propertyType,
                      listingPrice, sqfts[2])>> :
            <<id, source, addresses, city, zipCode, propertyType,
              listingPrice, sqfts>>
                \in {"p1", "p2"} \X {LoopNet, RealtyRates} \X PairAddresses
                     \X {<<"A", "t", "l", "a", "n", "t", "a">>, <<"M", "a", "c", "o", "n">>}
                     \X {<<"3", "0", "3", "0", "1">>, <<"3", "0", "3", "0", "2">>}
                     \X {<<"o", "f", "f", "i", "c", "e">>, <<"r", "e", "t", "a", "i", "l">>}
                     \X {5000, 4000} \X PairSqfts}

CallFindDuplicates ==
    Call("findDuplicates",
         Returned(findDuplicates(normalizedProperties(batch),
                                 DefaultThreshold)))

InitPairs ==
    /\ InitQueue
    /\ InitPipeline
    /\ batch \in Pairs
    /\ result = NoResult

NextPairs == CallFindDuplicates \/ CallDeduplicateProperties

SpecPairs == InitPairs /\ [][NextPairs]_vars

(* Ingestion runs: calls of ingestByZipCode with the default sources or a  *)
(* list naming an unknown one, with and without validation; scrapers and    *)
(* database calls that settle either way, in any interleaving of the runs.   *)

MaxRuns == 2

MaxDbErrors == 1

SourceLists == {DefaultSources, <<Crexi, "Zillow", LoopNet>>}

Ingests(maxRuns) ==
    /\ Len(runs) < maxRuns
    /\ \E sources \in SourceLists, enableValidation \in BOOLEAN :
          ingestByZipCode(sources, enableValidation)

ScrapeSettles == \E r \in 1..Len(runs), ok \in BOOLEAN : scrapeSettles(r, ok)

ScrapeDelays == \E r \in 1..Len(runs) : scrapeDelay(r)

FindFirstSettles(maxDbErrors) ==
    \E r \in 1..Len(runs), ok \in BOOLEAN :
        /\ IF ok THEN TRUE ELSE runs[r].errors < maxDbErrors
        /\ findFirstSettles(r, ok)

CreateSettles(maxDbErrors) ==
    \E r \in 1..Len(runs), ok \in BOOLEAN :
        /\ IF ok THEN TRUE ELSE runs[r].errors < maxDbErrors
        /\ createSettles(r, ok)

NextIngest ==
    \/ Ingests(MaxRuns)
    \/ ScrapeSettles
    \/ ScrapeDelays
    \/ FindFirstSettles(MaxDbErrors)
    \/ CreateSettles(MaxDbErrors)

SpecIngest == Init /\ [][NextIngest]_vars

(* Dispatch: jobs of any priority added while the queue is idle, while a    *)
(* reschedule timer is outstanding and while every slot is taken; timers     *)
(* fire and executors settle.                                                *)

NextDispatch ==
    \/ Calls(MaxDispatchJobs, Priorities, {DefaultMaxAttempts}, {1})
    \/ Cancels(MaxDispatchCancels)
    \/ rescheduleTimer
    \/ Settles(MaxDispatchThrows)
    \/ RetryTimers

SpecDispatch == Init /\ [][NextDispatch]_vars

SpecDispatchFair == SpecDispatch /\ Fairness(MaxDispatchThrows)

(* Lists of three and four records for findDuplicates at a threshold:       *)
(* addresses in a chain (the first like the second, the second like the      *)
(* third, the first unlike the third at 0.85) and one unlike all; a record    *)
(* carries its own id or the id of record 1.                                  *)

Thresholds == {DefaultThreshold, fraction(95, 100)}

ChainLists ==
    LET ChainAddresses ==
            {<<"1", "2", " ", "O", "a", "k", " ", "S", "t">>, <<"1", "3", " ", "O", "a", "k", " ", "S", "t">>,
             <<"1", "3", " ", "E", "l", "m", " ", "S", "t">>, <<"9", " ", "B", "a", "y">>}
        OwnIds == <<"p1", "p2", "p3", "p4">>
        ChainRecord(id, address) ==
            rawProperty(id, Crexi, address, <<"A", "t", "l", "a", "n", "t", "a">>, <<"G", "A">>,
                        <<"3", "0", "3", "0", "1">>, <<"o", "f", "f", "i", "c", "e">>, 5000, 100, {})
    IN  UNION {{[k \in 1..n |-> ChainRecord(IF own[k] THEN OwnIds[k] ELSE "p1",
                                            addresses[k])] :
                   <<own, addresses>>
                       \in [1..n -> BOOLEAN] \X [1..n -> ChainAddresses]} :
               n \in (MaxChain - 1)..MaxChain}

CallFindDuplicatesAt(threshold) ==
    /\ result' = [op |-> "findDuplicates",
                  out |-> Returned(findDuplicates(normalizedProperties(batch),
                                                  threshold)),
                  threshold |-> threshold]
    /\ UNCHANGED <<batch, queueVars, channelVars, pipelineVars>>

InitGroups ==
    /\ InitQueue
    /\ InitPipeline
    /\ batch \in ChainLists
    /\ result = NoResult

NextGroups ==
    \/ \E threshold \in Thresholds : CallFindDuplicatesAt(threshold)
    \/ CallDeduplicateProperties

SpecGroups == InitGroups /\ [][NextGroups]_vars

(* The scheduling API: one-off and recurring requests of every type, the    *)
(* interval timers of the recurrences, cancelJob calls, timers, executors.   *)

Posts(maxSchedulers, maxJobs) ==
    /\ Len(jobs) < maxJobs
    /\ \E type \in RequestTypes, priority \in {DefaultPriority},
          isRecurring \in BOOLEAN :
          /\ IF type = "ingestion" /\ isRecurring
             THEN Cardinality(recurring) < maxSchedulers
             ELSE TRUE
          /\ POST(type, priority, isRecurring, 1)

NextSchedule ==
    \/ Posts(MaxSchedulers, MaxRecurringJobs)
    \/ IntervalTimers(MaxRecurringJobs)
    \/ Cancels(MaxCancels)
    \/ rescheduleTimer
    \/ Settles(MaxThrows)
    \/ RetryTimers

SpecSchedule == Init /\ [][NextSchedule]_vars

(* Subscribers that throw: the progress channel with a callback that throws *)
(* on every event subscribed for some jobs.                                  *)

SubscribesThrowing(maxSubs) ==
    \E jobId \in 1..Len(jobs) :
        /\ Len(subLog) < maxSubs
        /\ subscribeToProgress(jobId, Throwing)

NextSubscribers ==
    \/ Calls(MaxProgressJobs, {DefaultPriority}, {1, DefaultMaxAttempts}, {1})
    \/ SubscribesThrowing(MaxSubs)
    \/ Unsubscribes(MaxSubs)
    \/ Milestones
    \/ rescheduleTimer
    \/ Settles(MaxProgressThrows)
    \/ RetryTimers

SpecSubscribers == Init /\ [][NextSubscribers]_vars

(* Address strings for normalizeAddress: every string of up to             *)
(* MaxAddressLen characters over a letter of each case, a digit, the space,   *)
(* a full stop and the underscore, and every sequence of up to                *)
(* MaxAddressWords pieces of words, spaces and full stops.                    *)

RECURSIVE concat(_)
concat(strs) == IF strs = <<>> THEN <<>> ELSE Head(strs) \o concat(Tail(strs))

AddressStrings ==
    LET AddressChars == {"a", "S", "1", " ", ".", "_"}
        Pieces == {<<"S", "t", "r", "e", "e", "t">>, <<"s", "t">>, <<"r", "e">>, <<"e", "t">>, <<".">>, <<" ">>, <<"1", "2">>}
    IN  UNION {[1..n -> AddressChars] : n \in 0..MaxAddressLen}
        \cup {concat(pieces) :
                 pieces \in UNION {[1..n -> Pieces] : n \in 0..MaxAddressWords}}

CallNormalizeAddress ==
    Call("normalizeAddress", Returned(normalizeAddress(batch)))

InitAddress ==
    /\ InitQueue
    /\ InitPipeline
    /\ batch \in AddressStrings
    /\ result = NoResult

NextAddress == CallNormalizeAddress

SpecAddress == InitAddress /\ [][NextAddress]_vars

----------------------------------------------------------------------------
(* Vocabulary of the properties. *)

Ids == 1..Len(jobs)

Elems(q) == {q[i] : i \in 1..Len(q)}

Running == {id \in Ids : jobs[id].status = "running"}

Terminal(job) == job.status \in {"completed", "failed"}

\* Job a goes before job b: a smaller priority number, or the same
\* priority and a strictly earlier createdAt.
Precedes(a, b) ==
    \/ jobs[a].priority < jobs[b].priority
    \/ jobs[a].priority = jobs[b].priority
        /\ jobs[a].createdAt < jobs[b].createdAt

\* The pool as it was when the i-th job of the pass was shifted off it,
\* that job excluded.
PoolBehind(i) == Elems(SubSeq(lastPass, i + 1, Len(lastPass))) \cup Elems(queue)

----------------------------------------------------------------------------
(* C1: at most maxConcurrentJobs (3) jobs have status 'running', and       *)
(* runningJobs never holds more than 3 ids.                                *)

C1_ConcurrencyBound ==
    /\ Cardinality(Running) <= maxConcurrentJobs
    /\ Cardinality(runningJobs) <= maxConcurrentJobs

\* All three slots are taken and a job waits in the pool.
C1_Witness ==
    /\ Cardinality(Running) = maxConcurrentJobs
    /\ Len(queue) > 0

(* C2: attempts <= maxAttempts for every job, and attempts < maxAttempts   *)
(* for every job with status 'retrying'.                                   *)

C2_AttemptsWithinLimit ==
    \A id \in Ids :
        /\ jobs[id].attempts <= jobs[id].maxAttempts
        /\ jobs[id].status = "retrying"
              => jobs[id].attempts < jobs[id].maxAttempts

(* C3: every job added eventually reaches 'completed' or 'failed', given   *)
(* that timers fire and executors settle.                                  *)

C3_EveryJobTerminates ==
    \A id \in 1..MaxRetryJobs :
        (id \in Ids) ~> (id \in Ids /\ Terminal(jobs[id]))

(* C4: when a job is dispatched, no job then in the pending pool has a     *)
(* smaller priority number, or the same priority and a strictly earlier    *)
(* createdAt.                                                              *)

C4_DispatchesFirstInOrder ==
    \A i \in 1..Len(lastPass) :
        \A other \in PoolBehind(i) : ~Precedes(other, lastPass[i])

\* A pass dispatched a job ahead of one created before it, and a job that
\* was re-inserted by its retry timer waits in the pool.
C4_Witness ==
    /\ \E i \in 1..Len(lastPass) :
          \E other \in Elems(queue) : other < lastPass[i]
    /\ \E id \in Elems(queue) : jobs[id].attempts > 0

(* C5 (as claimed): after four consecutive addJob calls with priorities    *)
(* [3,1,2,1] on the empty idle queue, the jobs are dispatched in the order *)
(* job 2, job 4, job 3, job 1.                                             *)
(* C5 (amended): they are dispatched in the order job 1, job 2, job 4,     *)
(* job 3, job 1 being dispatched by its own addJob call.                   *)

ClaimedBurstOrder == <<2, 4, 3, 1>>

BurstOrder == <<1, 2, 4, 3>>

After(order, id) ==
    {order[k] : k \in {n \in 1..Len(order) :
                          \E m \in 1..(n - 1) : order[m] = id}}

\* In this step no job is dispatched for the first time after a job that
\* order places behind it.
FirstDispatchesFollow(order) ==
    \A i \in 1..Len(lastPass') :
        LET id == lastPass'[i]
        IN  (id \notin Ids \/ jobs[id].attempts = 0)
            => \A later \in After(order, id) :
                  /\ later \notin Elems(SubSeq(lastPass', 1, i - 1))
                  /\ later \in Ids => jobs[later].attempts = 0

C5_ClaimedDispatchOrder == [][FirstDispatchesFollow(ClaimedBurstOrder)]_vars

C5_BurstDispatchOrder ==
    [][/\ FirstDispatchesFollow(BurstOrder)
       /\ ret' = addJobReturn(1) => lastPass' = <<1>>]_vars

\* The four jobs have all been dispatched.
C5_Witness ==
    /\ BurstDone
    /\ \A id \in Ids : jobs[id].attempts >= 1

(* C6: cancelJob(id) on a 'pending' job returns true, removes the job from *)
(* the pool and sets status 'failed' with the cancellation message; on a   *)
(* 'running' or 'completed' job, or an unknown id, it returns false and    *)
(* leaves the job map, the pool and the running-set unchanged.             *)

C6_CancelJobContract ==
    [][\A id \in 1..(Len(jobs) + 1) :
          (ret'.call = "cancelJob" /\ ret'.id = id) =>
             /\ (id \in Ids /\ jobs[id].status = "pending") =>
                   /\ ret'.value = TRUE
                   /\ id \notin Elems(queue')
                   /\ jobs'[id].status = "failed"
                   /\ jobs'[id].errorMessage = CancelMessage
             /\ (id \notin Ids \/ jobs[id].status \in {"running", "completed"}) =>
                   /\ ret'.value = FALSE
                   /\ UNCHANGED <<jobs, queue, runningJobs>>]_vars

\* cancelJob has just returned true for a job that was never dispatched,
\* while another job is running.
C6_Witness ==
    /\ ret.call = "cancelJob"
    /\ ret.value = TRUE
    /\ jobs[ret.id].attempts = 0
    /\ jobs[ret.id].status = "failed"
    /\ runningJobs # {}

(* C7: once a job is 'completed' or 'failed' its status never changes, it  *)
(* never re-enters the pending pool and it is never dispatched again.      *)

C7_TerminalIsFinal ==
    [][\A id \in Ids :
          Terminal(jobs[id]) =>
             /\ jobs'[id].status = jobs[id].status
             /\ id \notin Elems(queue')
             /\ id \notin Elems(lastPass')]_vars

(* C8 (as claimed): when addJob returns, the new job is 'pending' with     *)
(* attempts = 0 and is in the pending pool.                                *)
(* C8 (amended): that holds unless no pass was marked active at the call   *)
(* and fewer pool jobs of the same or a smaller priority number than free  *)
(* slots were ahead of it; then the job is 'running' with attempts = 1 and *)
(* out of the pool when addJob returns.                                    *)

AddedPending(id) ==
    /\ id \in 1..Len(jobs')
    /\ jobs'[id].status = "pending"
    /\ jobs'[id].attempts = 0
    /\ id \in Elems(queue')

AddedRunning(id) ==
    /\ id \in 1..Len(jobs')
    /\ jobs'[id].status = "running"
    /\ jobs'[id].attempts = 1
    /\ id \notin Elems(queue')

DispatchedByAddJob(id) ==
    LET free  == maxConcurrentJobs - Cardinality(runningJobs)
        ahead == {k \in Elems(queue) : jobs[k].priority <= jobs'[id].priority}
    IN  ~isProcessing /\ Cardinality(ahead) < free

C8_AddJobLeavesPending ==
    [][ret'.call = "addJob" => AddedPending(ret'.id)]_vars

C8_AddJobResult ==
    [][ret'.call = "addJob" =>
          /\ ret'.id = Len(jobs) + 1
          /\ IF DispatchedByAddJob(ret'.id)
             THEN AddedRunning(ret'.id)
             ELSE AddedPending(ret'.id)]_vars

\* addJob has just returned the id of a job that is already running, and
\* it was not the first job.
C8_Witness ==
    /\ ret.call = "addJob"
    /\ ret.id > 1
    /\ jobs[ret.id].status = "running"

(* C9: each dispatch increments attempts by 1; a failed run with attempts  *)
(* < maxAttempts makes the job 'retrying' and sets the timer of 5000 ms x  *)
(* attempts that alone re-inserts it in the pool, otherwise the job is     *)
(* 'failed' with completedAt and errorMessage set; so the executor is run  *)
(* at most maxAttempts times, and a job fails through the executor only    *)
(* with attempts = maxAttempts.                                            *)

Settled == runningJobs \ runningJobs'

C9_RetryContract ==
    [][/\ \A i \in 1..Len(lastPass') :
             LET id == lastPass'[i]
             IN  jobs'[id].attempts =
                    (IF id \in Ids THEN jobs[id].attempts ELSE 0) + 1
       /\ throws' = throws + 1 =>
             \A id \in Settled :
                IF jobs[id].attempts < jobs[id].maxAttempts
                THEN /\ jobs'[id].status = "retrying"
                     /\ id \notin Elems(queue')
                     /\ [job |-> id, delay |-> RetryBaseMs * jobs[id].attempts]
                           \in retryTimers'
                ELSE /\ jobs'[id].status = "failed"
                     /\ jobs'[id].completedAt
                     /\ jobs'[id].errorMessage = ExecutorError
                     /\ jobs[id].attempts = jobs[id].maxAttempts
       /\ \A id \in Ids :
             (id \notin Elems(queue) /\ id \in Elems(queue')) =>
                [job |-> id, delay |-> RetryBaseMs * jobs[id].attempts]
                   \in retryTimers \ retryTimers'
       /\ \A id \in 1..Len(jobs') :
             jobs'[id].attempts <= jobs'[id].maxAttempts]_vars

(* C10: an executor's exception ends in 'retrying' or 'failed', releases   *)
(* the job's slot, leaves the scheduler and the other jobs as they were,   *)
(* and a pass stays scheduled while a job is 'pending'.                    *)

C10_ExecutorFailureContained ==
    [][throws' = throws + 1 =>
          /\ Cardinality(Settled) = 1
          /\ \A id \in Settled :
                /\ jobs'[id].status \in {"retrying", "failed"}
                /\ runningJobs' = runningJobs \ {id}
                /\ \A other \in Ids \ {id} : jobs'[other] = jobs[other]
          /\ UNCHANGED <<queue, isProcessing, tickTimers>>
          /\ (\E id \in Ids : jobs'[id].status = "pending")
                => isProcessing' /\ tickTimers' > 0]_vars

\* A job whose executor threw is out of the running-set while another job
\* is still pending with a pass scheduled.
C10_Witness ==
    /\ \E id \in Ids :
          /\ jobs[id].status \in {"retrying", "failed"}
          /\ jobs[id].errorMessage = ExecutorError
          /\ id \notin runningJobs
    /\ \E id \in Ids : jobs[id].status = "pending"
    /\ tickTimers > 0

(* C20: a job's status changes only along pending -> running, running ->   *)
(* completed | retrying | failed, retrying -> pending (and, by cancelJob,   *)
(* pending | retrying -> failed); a job is created 'pending'; every job in  *)
(* the pending pool is 'pending'; a job is dispatched only from 'pending'.  *)

StateMachine ==
    {<<"pending", "running">>, <<"running", "completed">>,
     <<"running", "retrying">>, <<"running", "failed">>,
     <<"retrying", "pending">>}

CancelTransitions == {<<"pending", "failed">>, <<"retrying", "failed">>}

C20_StateMachine ==
    [][/\ \A id \in Ids :
             \/ jobs'[id].status = jobs[id].status
             \/ <<jobs[id].status, jobs'[id].status>> \in StateMachine
             \/ /\ ret'.call = "cancelJob"
                /\ <<jobs[id].status, jobs'[id].status>> \in CancelTransitions
       /\ \A id \in Elems(queue') : jobs'[id].status = "pending"
       /\ \A i \in 1..Len(lastPass') :
             lastPass'[i] \in Ids => jobs[lastPass'[i]].status = "pending"]_vars

(* C11: a progress event of job j goes to the callback of the latest       *)
(* subscribeToProgress(j, .) call and to no other, to none after            *)
(* unsubscribeFromProgress(j) or before any subscription; that callback     *)
(* gets the event of every dispatch of j; subscribing and unsubscribing     *)
(* deliver nothing (no replay).                                             *)

CallsAbout(log, jobId) == {i \in 1..Len(log) : log[i].jobId = jobId}

\* The callback the calls made so far leave subscribed for jobId, "" if none.
ActiveCallback(log, jobId) ==
    LET about == CallsAbout(log, jobId)
    IN  IF about = {} THEN ""
        ELSE LET last == CHOOSE i \in about : \A k \in about : k <= i
             IN  IF log[last].op = "subscribe" THEN log[last].callback ELSE ""

C11_OneActiveCallback ==
    [][/\ \A i \in 1..Len(delivered') :
             delivered'[i].callback = ActiveCallback(subLog, delivered'[i].jobId)
       /\ \A i \in 1..Len(lastPass') :
             ActiveCallback(subLog, lastPass'[i]) # "" =>
                Cardinality({k \in 1..Len(delivered') :
                                /\ delivered'[k].jobId = lastPass'[i]
                                /\ delivered'[k].message = StartMessage}) = 1
       /\ ret'.call \in {"subscribeToProgress", "unsubscribeFromProgress"}
             => delivered' = <<>>]_vars

\* An event has just gone to the callback that replaced another one for
\* the same job, while a callback is subscribed for another job.
C11_Witness ==
    /\ delivered # <<>>
    /\ \E i \in CallsAbout(subLog, delivered[1].jobId) :
          /\ subLog[i].op = "subscribe"
          /\ subLog[i].callback # delivered[1].callback
    /\ \E j \in Ids \ {delivered[1].jobId} : ActiveCallback(subLog, j) # ""

(* C12: scheduleRecurringJob adds one fresh job of its priority before it  *)
(* returns and leaves an interval timer armed; every firing of an interval  *)
(* timer adds one more fresh job of that priority and leaves the timer      *)
(* armed; no step, whatever becomes of the jobs, disarms an interval timer. *)

\* This step registered exactly one job, of this priority, created now with
\* attempts counted from 0: it waits 'pending' in the pool, or this same
\* step has dispatched it from there.
AddsFreshJob(priority) ==
    LET id == Len(jobs) + 1
    IN  /\ Len(jobs') = id
        /\ \A k \in Ids : jobs'[k].createdAt = jobs[k].createdAt
        /\ jobs'[id].priority = priority
        /\ jobs'[id].maxAttempts = DefaultMaxAttempts
        /\ jobs'[id].createdAt = now'
        /\ \/ AddedPending(id)
           \/ AddedRunning(id) /\ id \in Elems(lastPass')

C12_RecurringJobs ==
    [][/\ ret'.call = "scheduleRecurringJob" =>
             \E t \in recurring' \ recurring :
                /\ recurring' = recurring \cup {t}
                /\ AddsFreshJob(t.priority)
       /\ ret'.call = "schedule" =>
             /\ recurring' = recurring
             /\ \E t \in recurring : AddsFreshJob(t.priority)
       /\ recurring \subseteq recurring'
       /\ ret'.call \notin {"scheduleRecurringJob", "schedule"}
             => Len(jobs') = Len(jobs)]_vars

\* An interval timer has just added a job although an earlier job was
\* cancelled, another completed and another is still running.
C12_Witness ==
    /\ ret.call = "schedule"
    /\ \E id \in Ids : jobs[id].status = "failed"
    /\ \E id \in Ids : jobs[id].status = "completed"
    /\ \E id \in Ids \ {ret.id} : jobs[id].status = "running"

----------------------------------------------------------------------------
(* The confidence of a raw record as the formula states it: a field is     *)
(* missing when it is undefined or empty.                                   *)

Missing(property, field) ==
    ~Has(property, field) \/ property[field] = <<>>

NotPositive(property, field) ==
    ~Has(property, field) \/ property[field] <= 0

Indicator(condition, points) == IF condition THEN points ELSE 0

ClaimedConfidence(raw) ==
    max(0, min(100,
        100
        - Indicator(Missing(raw, "address") \/ Len(raw.address) < 10, 20)
        - Indicator(Missing(raw, "address") \/ ~matchesDigits(raw.address), 15)
        - Indicator(Missing(raw, "zipCode"), 15)
        - Indicator(Missing(raw, "city"), 10)
        - Indicator(Missing(raw, "state"), 10)
        - Indicator(NotPositive(raw, "listingPrice"), 20)
        - Indicator(NotPositive(raw, "sqft"), 15)
        + Indicator(raw.source = LoopNet, 10)
        + Indicator(raw.source = Crexi, 5)))

\* C13: calculateConfidence(raw) equals the clamped sum of the penalties
\* and the source bonus, for every raw record.
C13_ConfidenceFormula ==
    result.op = "calculateConfidence"
        => /\ ~result.out.threw
           /\ result.out.value = ClaimedConfidence(batch[1])

\* C17: calculateConfidence, normalizeProperty and processDataBatch return
\* a value for every raw record with any subset of its fields missing.
C17_NeverThrows == ~result.out.threw

----------------------------------------------------------------------------
(* Deduplication, stated on the positions of the input list: a position is *)
(* one record object.                                                      *)

Deduplicated == result.op = "deduplicateProperties"

Input == normalizedProperties(batch)

Groups == result.out.value.groups

Kept == result.out.value.kept

Members(group) == {group[m] : m \in 1..Len(group)}

InSomeGroup(k) == \E g \in 1..Len(Groups) : k \in Members(Groups[g])

\* The member with the highest confidence, the earliest among equals.
Survivor(group) ==
    group[CHOOSE m \in 1..Len(group) :
            /\ \A n \in 1..Len(group) :
                  Input[group[n]].confidence <= Input[group[m]].confidence
            /\ \A n \in 1..(m - 1) :
                  Input[group[n]].confidence < Input[group[m]].confidence]

RECURSIVE SumRemoved(_)
SumRemoved(groups) ==
    IF groups = <<>> THEN 0
    ELSE (Len(Head(groups)) - 1) + SumRemoved(Tail(groups))

KeepsUngroupedAndSurvivors ==
    /\ \A k \in 1..Len(Input) :
          Cardinality({x \in 1..Len(Kept) : Kept[x] = k})
            = IF ~InSomeGroup(k)
                 \/ \E g \in 1..Len(Groups) : k = Survivor(Groups[g])
              THEN 1 ELSE 0

SharesGroupId ==
    \A g \in 1..Len(Groups) :
        LET members == result.out.value.duplicateGroups[g]
        IN  /\ members[1].duplicateGroup # 0
            /\ \A m \in 1..Len(members) :
                  members[m].duplicateGroup = members[1].duplicateGroup
            /\ \A x \in 1..Len(Kept) :
                  Kept[x] \in Members(Groups[g])
                     => result.out.value.deduplicatedProperties[x].duplicateGroup
                           = members[1].duplicateGroup

\* C14: deduplicateProperties returns every record in no duplicate group
\* and exactly one record per group, the earliest of its highest-confidence
\* members; the members of a group share one duplicateGroup id; removedCount
\* is the sum over the groups of (group size - 1).
C14_Deduplicate ==
    Deduplicated
        => /\ KeepsUngroupedAndSurvivors
           /\ SharesGroupId
           /\ result.out.value.removedCount = SumRemoved(Groups)

----------------------------------------------------------------------------
(* The five-record scenario. *)

Similar(a, b) ==
    atLeast(calculateSimilarity(Input[a], Input[b]), DefaultThreshold)

SimilarToNone(a) == \A b \in 1..Len(batch) : b # a => ~Similar(a, b)

Scenario ==
    /\ Len(batch) = 5
    /\ Similar(1, 2)
    /\ Similar(1, 4)
    /\ SimilarToNone(3)
    /\ batch[5].sqft = 0
    /\ SimilarToNone(5)

Processed == result.op = "processDataBatch"

KeptOf(positions) ==
    {x \in 1..Len(Kept) : Kept[x] \in positions}

\* C15: processDataBatch on five records, 2 and 4 similar to 1, 3 and 5
\* similar to none, 5 with sqft = 0, returns finalCount = 3 and
\* duplicatesFound = 1, and keeps record 5, record 3 and exactly one of
\* records 1, 2, 4.
C15_FiveRecords ==
    (Processed /\ Scenario)
        => /\ ~result.out.threw
           /\ result.out.value.statistics.finalCount = 3
           /\ result.out.value.statistics.duplicatesFound = 1
           /\ Cardinality(KeptOf({5})) = 1
           /\ Cardinality(KeptOf({3})) = 1
           /\ Cardinality(KeptOf({1, 2, 4})) = 1

----------------------------------------------------------------------------
(* Two records one character apart. *)

OneCharacterApart ==
    /\ Len(batch) = 2
    /\ Input[1].city = Input[2].city
    /\ Input[1].state = Input[2].state
    /\ levenshteinDistance(Input[1].normalizedAddress,
                           Input[2].normalizedAddress) = 1

GroupsBoth ==
    result.op = "findDuplicates" => result.out.value = <<<<1, 2>>>>

KeepsHigherConfidence ==
    Deduplicated
        => /\ Len(Kept) = 1
           /\ \A k \in 1..2 :
                 Input[k].confidence <= Input[Kept[1]].confidence
           /\ Groups = <<<<1, 2>>>>
           /\ SharesGroupId

\* C16: two records with identical city and state whose addresses are one
\* edit apart are returned as one group by findDuplicates, and
\* deduplicateProperties keeps the one of higher confidence and gives both
\* the same duplicateGroup.
C16_OneCharacterTypo ==
    OneCharacterApart => (GroupsBoth /\ KeepsHigherConfidence)

----------------------------------------------------------------------------
(* The ingestion pipeline. *)

SameKey(row1, row2) ==
    /\ row1.address = row2.address
    /\ row1.city = row2.city
    /\ row1.state = row2.state
    /\ row1.zip_code = row2.zip_code

\* C19: whatever runs were made and however their insert phases
\* interleaved, no two rows of the store have the same key
\* (normalizedAddress, city, state, zipCode).
C19_UniqueKeys ==
    \A x, y \in 1..Len(store) : x # y => ~SameKey(store[x], store[y])

\* The positions of the configured sources that have a scraper, in order.
RECURSIVE KnownFrom(_, _)
KnownFrom(sources, k) ==
    IF k > Len(sources) THEN <<>>
    ELSE (IF sources[k] \in KnownSources THEN <<k>> ELSE <<>>)
         \o KnownFrom(sources, k + 1)

\* The records of the sources at the given positions that did not throw.
RECURSIVE RecordsOf(_, _)
RecordsOf(run, positions) ==
    IF positions = <<>> THEN <<>>
    ELSE (IF Head(positions) \in run.rejected THEN <<>>
          ELSE scraped(run.sources[Head(positions)]))
         \o RecordsOf(run, Tail(positions))

ScrapeOver(run) == run.pc \in {"find", "create", "done", "failed"}

\* C18: a scraper that throws costs the run that source's records only:
\* every configured source with a scraper is queried, in configuration
\* order, the records of the sources that resolved are all passed to
\* processDataBatch, and the run does not fail.
C18_SourceFailureIsolated ==
    \A r \in 1..Len(runs) :
        LET run == runs[r]
            known == KnownFrom(run.sources, 1)
        IN  /\ run.pc # "failed"
            /\ Len(run.queried) <= Len(known)
            /\ \A x \in 1..Len(run.queried) :
                  run.queried[x] = run.sources[known[x]]
            /\ ScrapeOver(run)
                  => /\ Len(run.queried) = Len(known)
                     /\ run.scrapedData = RecordsOf(run, known)

C18_Witness ==
    \E r \in 1..Len(runs) :
        /\ runs[r].sources = DefaultSources
        /\ runs[r].rejected = {1}
        /\ runs[r].queried = DefaultSources
        /\ Len(runs[r].scrapedData) = 2
        /\ runs[r].pc = "done"
        /\ runs[r].inserted = 2

----------------------------------------------------------------------------
(* C21: a job addJob put in the pending pool is eventually dispatched or   *)
(* cancelled, given that timers fire and executors settle: whether it was   *)
(* added to the idle queue, while a reschedule timer was outstanding, or     *)
(* while all 3 slots were taken.                                             *)

Dispatched(id) == jobs[id].startedAt

Cancelled(id) == jobs[id].errorMessage = CancelMessage

----------------------------------------------------------------------------
(* C22: the scheduler is not re-entrant: at most one reschedule timer is   *)
(* outstanding, and isProcessing is true exactly while one is; a step       *)
(* starts a pass only with no timer outstanding or as the callback of the   *)
(* one that was.                                                            *)

C22_NotReentrant ==
    /\ tickTimers <= 1
    /\ isProcessing <=> tickTimers = 1

\* addJob has returned job 2's id while job 1 runs and the timer of the pass
\* that started it is outstanding: job 2 waits in the pool with a slot free.
C22_Witness ==
    /\ ret = addJobReturn(2)
    /\ runningJobs = {1}
    /\ queue = <<2>>
    /\ isProcessing
    /\ lastPass = <<>>

----------------------------------------------------------------------------
(* The groups findDuplicates returned, as positions of its input list.      *)

Found == result.op = "findDuplicates"

FoundGroups == result.out.value

Threshold ==
    IF "threshold" \in DOMAIN result THEN result.threshold ELSE DefaultThreshold

Meets(k, l) == atLeast(calculateSimilarity(Input[k], Input[l]), Threshold)

\* Position k is a member of a group seeded before position seed.
ClaimedBefore(k, seed) ==
    \E h \in 1..Len(FoundGroups) :
        FoundGroups[h][1] < seed /\ k \in Members(FoundGroups[h])

InFoundGroup(k) ==
    \E h \in 1..Len(FoundGroups) : k \in Members(FoundGroups[h])

\* A later record, unclaimed when k's turn comes, meets the threshold
\* against k.
HasMatch(k) ==
    \E l \in (k + 1)..Len(Input) : ~ClaimedBefore(l, k) /\ Meets(k, l)

DisjointGroups ==
    \A g, h \in 1..Len(FoundGroups) :
        g # h => Members(FoundGroups[g]) \cap Members(FoundGroups[h]) = {}

InInputOrder(group) ==
    \A m, n \in 1..Len(group) : m < n => group[m] < group[n]

\* The seed is unclaimed, and no unclaimed record with a match is passed
\* over: every record with a match that no earlier group claimed seeds a
\* group.
SeedsAreEarliest ==
    /\ \A g \in 1..Len(FoundGroups) :
          ~ClaimedBefore(FoundGroups[g][1], FoundGroups[g][1])
    /\ \A k \in 1..Len(Input) :
          (~ClaimedBefore(k, k) /\ HasMatch(k))
             => \E g \in 1..Len(FoundGroups) : FoundGroups[g][1] = k

MembersMeetSeed(group) ==
    \A m \in 2..Len(group) : group[m] > group[1] /\ Meets(group[1], group[m])

GroupIsComplete(group) ==
    \A l \in (group[1] + 1)..Len(Input) :
        (~ClaimedBefore(l, group[1]) /\ Meets(group[1], l))
           => l \in Members(group)

\* C23: the groups findDuplicates returns are pairwise disjoint, each of at
\* least two members in input order; a group's seed is the earliest record
\* no earlier group claimed (that has a match); every other member is a
\* later record meeting the threshold against the seed, and every later
\* unclaimed record meeting it is in the group.
C23_GroupsOfFindDuplicates ==
    Found
       => /\ DisjointGroups
          /\ SeedsAreEarliest
          /\ \A g \in 1..Len(FoundGroups) :
                /\ Len(FoundGroups[g]) >= 2
                /\ InInputOrder(FoundGroups[g])
                /\ MembersMeetSeed(FoundGroups[g])
                /\ GroupIsComplete(FoundGroups[g])

----------------------------------------------------------------------------
(* C24 (as claimed): over the records A, B, C in that order with A like B, *)
(* B like C and A unlike C at the threshold, C is in A's group once B has   *)
(* joined it.                                                               *)
(* C24 (amended): C is compared with the seed A only: the one group         *)
(* returned is [A, B], and C is in no group.                                *)

Chain ==
    /\ Found
    /\ Len(batch) = 3
    /\ Meets(1, 2)
    /\ Meets(2, 3)
    /\ ~Meets(1, 3)

BJoinedA == \E g \in 1..Len(FoundGroups) : {1, 2} \subseteq Members(FoundGroups[g])

C24_ClaimedChainJoins ==
    (Chain /\ BJoinedA)
       => \E g \in 1..Len(FoundGroups) : {1, 3} \subseteq Members(FoundGroups[g])

C24_ComparesWithSeedOnly ==
    (Chain /\ BJoinedA) => FoundGroups = <<<<1, 2>>>>

\* findDuplicates has returned at 0.85 for a chain of three records with
\* their own ids.
C24_Witness ==
    /\ Chain
    /\ BJoinedA
    /\ Threshold = DefaultThreshold
    /\ \A k, l \in 1..3 : k # l => batch[k].id # batch[l].id
    /\ ~InFoundGroup(3)

----------------------------------------------------------------------------
(* Validation: what a run with validation enabled hands to persistence.     *)

DeduplicatedOf(run) ==
    processDataBatch(run.scrapedData).value.deduplicatedProperties

PastValidation(run) ==
    /\ run.pc \in {"find", "create", "done"}
    /\ ~processDataBatch(run.scrapedData).threw

\* A record with an address, a city and a state, a positive price and area
\* and a price per sqft within [10, 2000].
Eligible(property) ==
    /\ property.normalizedAddress # <<>>
    /\ property.city # <<>>
    /\ property.state # <<>>
    /\ property.listingPrice > 0
    /\ property.sqft > 0
    /\ property.listingPrice >= 10 * property.sqft
    /\ property.listingPrice <= 2000 * property.sqft

\* C25: in a run with validation enabled every deduplicated record with a
\* non-empty address, city and state, a positive listingPrice and sqft and
\* a price per sqft within [10, 2000] passes validation and is handed to
\* insertProperties, which inserts it or skips it.
C25_ValidRecordsReachPersistence ==
    \A r \in 1..Len(runs) :
        (runs[r].enableValidation /\ PastValidation(runs[r]))
           => \A k \in 1..Len(DeduplicatedOf(runs[r])) :
                 Eligible(DeduplicatedOf(runs[r])[k])
                    => \E x \in 1..Len(runs[r].validatedData) :
                          runs[r].validatedData[x] = DeduplicatedOf(runs[r])[k]

----------------------------------------------------------------------------
(* C26: every id the scheduling API answers in jobIds, for a recurring as   *)
(* for a one-off request, is the id of a job of the queue: getJob and        *)
(* getJobStatus return non-null for it, and cancelJob finds the job.         *)

C26_ReturnedIdsAreJobs ==
    ret.call = "POST"
       => /\ getJob(ret.id) # null
          /\ getJobStatus(ret.id) # nullStatus
          /\ ret.id <= Len(jobs)

----------------------------------------------------------------------------
(* C27: no job is in the pending pool twice; every job with status          *)
(* 'pending' is in the pool; no job with status 'running' or 'completed' is  *)
(* in the pool; the pool is sorted by (priority, createdAt) ascending.       *)

C27_PoolConsistent ==
    /\ \A i, j \in 1..Len(queue) : i # j => queue[i] # queue[j]
    /\ \A id \in Ids : jobs[id].status = "pending" => id \in Elems(queue)
    /\ \A i \in 1..Len(queue) :
          jobs[queue[i]].status \notin {"running", "completed"}
    /\ \A i, j \in 1..Len(queue) :
          i < j => compare(queue[i], queue[j], jobs) <= 0

\* The retry timer of job 1 has put it back in the pool behind job 4, which
\* was added later with a higher priority.
C27_Witness ==
    /\ queue = <<4, 1>>
    /\ jobs[1].status = "retrying"
    /\ jobs[4].status = "pending"
    /\ jobs[4].priority < jobs[1].priority

----------------------------------------------------------------------------
(* C28: a callback that throws does not alter a job's lifecycle: a step     *)
(* that reports the completion event (100%) leaves the job 'completed' with  *)
(* its attempts unchanged; a milestone event leaves the job's status and     *)
(* slot as they were; and a job with status 'running' holds a slot, its      *)
(* executor being in flight.                                                 *)

ReportsTo(events, id, message) ==
    \E k \in 1..Len(events) :
        events[k].jobId = id /\ events[k].message = message

C28_SubscriberCannotAlterLifecycle ==
    [][\A id \in Ids :
          /\ ReportsTo(delivered', id, CompletedMessage)
                => /\ jobs'[id].status = "completed"
                   /\ jobs'[id].attempts = jobs[id].attempts
          /\ ReportsTo(delivered', id, MilestoneMessage)
                => /\ jobs'[id].status = "running"
                   /\ id \in runningJobs'
          /\ (id <= Len(jobs') /\ jobs'[id].status = "running")
                => id \in runningJobs']_vars

----------------------------------------------------------------------------
(* C29: deduplication loses no record, whatever ids the records carry:      *)
(* every input record is in deduplicatedProperties or is a member of a       *)
(* returned group one of whose members is; and deduplicatedProperties has    *)
(* the input's length less the sum over the groups of (group size - 1).      *)

IsKept(k) == \E x \in 1..Len(Kept) : Kept[x] = k

C29_NoRecordLost ==
    Deduplicated
       => /\ \A k \in 1..Len(Input) :
                \/ IsKept(k)
                \/ \E g \in 1..Len(Groups) :
                      /\ k \in Members(Groups[g])
                      /\ \E m \in Members(Groups[g]) : IsKept(m)
          /\ Len(result.out.value.deduplicatedProperties)
                = Len(Input) - SumRemoved(Groups)

----------------------------------------------------------------------------
(* C30: normalizeAddress returns a canonical form: normalizing its result  *)
(* again changes nothing, and the result has no two consecutive spaces, no   *)
(* leading or trailing space, no upper-case letter and no punctuation        *)
(* character (any character that is not a letter, a digit or a space).       *)

Normalized == result.op = "normalizeAddress"

IsUpperCase(c) == \E i \in 1..Len(UpperCase) : UpperCase[i] = c

IsPunctuation(c) == c \notin Letters \cup Digits \cup {" "}

Canonical(str) ==
    /\ \A i \in 1..(Len(str) - 1) : ~(str[i] = " " /\ str[i + 1] = " ")
    /\ str # <<>> => (str[1] # " " /\ str[Len(str)] # " ")
    /\ \A i \in 1..Len(str) : ~IsUpperCase(str[i]) /\ ~IsPunctuation(str[i])

C30_CanonicalAddress ==
    Normalized
       => /\ normalizeAddress(result.out.value) = result.out.value
          /\ Canonical(result.out.value)

====
